---- MODULE Spec2Model ----
(***************************************************************************)
(* KFS kernel: the arch-independent hierarchical paging engine             *)
(* (kernel/src/paging/hierarchical_table.rs).                              *)
(*                                                                         *)
(* A hierarchy is a tree of tables.  A table is a function                 *)
(* 0..ENTRY_COUNT-1 -> entry.  An entry is one of                          *)
(*    [st |-> "Available"]                                                 *)
(*    [st |-> "Guarded"]                                                   *)
(*    [st |-> "Present", frame |-> f, flags |-> fl]    at level 0          *)
(*    [st |-> "Present", child |-> table]              at level > 0        *)
(* The recursive helpers rec_map_to / rec_guard / rec_unmap / rec_iter /   *)
(* rec_find are translated arm by arm.  A panic aborts the walk and keeps  *)
(* the entries already written, as the in-place mutation of the code does. *)
(***************************************************************************)
EXTENDS Integers, Sequences, FiniteSets, TLC

VARIABLES root,    \* the top level table of the hierarchy
          pre,     \* the top level table before the last call
          call,    \* the last call: its arguments and what it produced
          pre2,    \* the top level table before the call before the last
          call2,   \* the call before the last
          ncalls,  \* number of calls made so far
          irq,     \* the interrupt disable counter, the interrupt flag and
                   \* the SpinLockIRQs of one CPU
          sched,   \* the scheduler: SCHEDULE_QUEUE, CURRENT_PROCESS and the
                   \* processes' states and locks
          server,  \* a WaitableManager and the waitables of its event loop
          bitarr   \* a bit array and the last set_bits_area made on it

\* the variables of the paging engine, and the others
paging == <<root, pre, call, pre2, call2, ncalls>>
others == <<irq, sched, server, bitarr>>

vars == <<root, pre, call, pre2, call2, ncalls, irq, sched, server, bitarr>>

----------------------------------------------------------------------------
(* The architecture the generic code is instantiated at, and the bounds.   *)

\* entries per table (arch::ENTRY_COUNT)
ENTRY_COUNT == 2
\* bytes per page (arch::PAGE_SIZE), a power of two
PAGE_SIZE == 2
\* table_level() of the top level table: 2 gives a three level hierarchy
TOP_LEVEL == 2

\* calls made on one hierarchy
MaxCalls == 3
\* frames yielded by one frames_iterator
MaxMapFrames == 2
\* pages in the length of one guard or unmap call
MaxLenPages == 4
\* calls that build the hierarchy a search is made on
MaxSetupCalls == 2
\* pages in the length a search asks for
MaxFindPages == 3
\* pages in the alignment a search asks for
MaxAlignPages == 3
\* pages between the smallest window that fits and the end of the window
MaxSlackPages == 1
\* largest address, in bytes, of a call with arbitrary arguments
MaxArgAddress == 5
\* largest length, in bytes, of a call with arbitrary arguments
MaxArgLength == 4
\* largest alignment, in bytes, of a search with arbitrary arguments
MaxArgAlign == 2
\* pages in the length of one for_every_entry call
MaxIterPages == 6

RECURSIVE Pow(_, _)
Pow(b, e) == IF e = 0 THEN 1 ELSE b * Pow(b, e - 1)

\* HierarchicalTable::entry_vm_size of a table of the given level
entry_vm_size(level) == Pow(ENTRY_COUNT, level) * PAGE_SIZE

\* the bytes one whole table of the given level spans
table_vm_size(level) == ENTRY_COUNT * entry_vm_size(level)

\* the whole address space; usize is exactly wide enough to address it,
\* as on i386 where 1024 * 1024 * 4096 = 2^32
ADDRESS_SPACE == table_vm_size(TOP_LEVEL)
USIZE_MAX == ADDRESS_SPACE - 1

Indices == 0 .. (ENTRY_COUNT - 1)
NbPages == ADDRESS_SPACE \div PAGE_SIZE
Pages == 0 .. (NbPages - 1)
PageAddresses == { p * PAGE_SIZE : p \in Pages }

MappingFlags == {"ro", "rw"}

NoRepeat(s) == \A i, j \in 1..Len(s) : i # j => s[i] # s[j]

\* what a frames_iterator may yield: the n <= MaxMapFrames frames of one
\* call, numbered 1..n, in any order
FrameSeqs ==
    UNION { { s \in [1..n -> 1..n] : NoRepeat(s) } : n \in 1..MaxMapFrames }

\* the lengths of a guard or unmap call
Lengths == { n * PAGE_SIZE : n \in 1..MaxLenPages }

----------------------------------------------------------------------------
(* PageState, entries and tables.                                          *)

Available == [st |-> "Available"]
Guarded == [st |-> "Guarded"]
PresentFrame(f, fl) == [st |-> "Present", frame |-> f, flags |-> fl]
PresentTable(t) == [st |-> "Present", child |-> t]

\* HierarchicalEntry::pointed_frame, reduced to the PageState variant
pointed_frame(entry) == entry.st

\* HierarchicalTable::zero: every entry unused
zero == [i \in Indices |-> Available]

\* HierarchicalTable::guard_all_entries
guard_all_entries(table) == [i \in Indices |-> Guarded]

\* map_nth_entry that drops the flags it is given
map_nth_entry_noflags(table, entry, paddr, flags) ==
    [table EXCEPT ![entry] = [st |-> "Present", frame |-> paddr, flags |-> "ro"]]

\* HierarchicalTable::map_nth_entry
map_nth_entry(table, entry, paddr, flags) ==
    [table EXCEPT ![entry] = PresentFrame(paddr, flags)]

\* HierarchicalTable::guard_nth_entry
guard_nth_entry(table, entry) == [table EXCEPT ![entry] = Guarded]

\* unmap_nth_entry doing what its doc comment says: marking the entry as
\* a guard page
unmap_nth_entry_asguard(table, entry) == [table EXCEPT ![entry] = Guarded]

\* HierarchicalTable::unmap_nth_entry
unmap_nth_entry(table, entry) == [table EXCEPT ![entry] = Available]

\* HierarchicalTable::create_child_table: a fresh zeroed child installed
\* as Present at index
create_child_table(table, index) ==
    [table EXCEPT ![index] = PresentTable(zero)]

\* HierarchicalTable::get_child_table
get_child_table(table, index) == table[index].child

\* HierarchicalTable::get_child_table_or_create: the table with the child
\* in place (the Guarded case is excluded by the caller's match)
get_child_table_or_create(table, index) ==
    IF pointed_frame(table[index]) = "Available"
    THEN create_child_table(table, index)
    ELSE table

\* writes a walked child back into its parent entry (the code mutates the
\* child in place through the SmartHierarchicalTable handle)
put_child_table(table, index, child) ==
    [table EXCEPT ![index] = PresentTable(child)]

----------------------------------------------------------------------------
(* What a walk does, in order.  A table in use is named by its level: the  *)
(* walk holds at most one handle per level.                                *)

\* a SmartHierarchicalTable handle to a table of this level is obtained
Open(level) == [ev |-> "open", level |-> level, frame |-> 0]
\* the handle is dropped
Close(level) == [ev |-> "close", level |-> level, frame |-> 0]
\* an entry of the table is written by set, set_guard or set_unused
Set(level) == [ev |-> "set", level |-> level, frame |-> 0]
\* create_child_table makes the entry of the parent point to the new child
Link(level) == [ev |-> "link", level |-> level, frame |-> 0]
\* CacheFlusherType::flush_whole_cache
Flush == [ev |-> "flush", level |-> 0, frame |-> 0]
\* the callback of unmap is invoked with a frame
Callback(f) == [ev |-> "callback", level |-> 0, frame |-> f]
Panic == [ev |-> "panic", level |-> 0, frame |-> 0]
\* a subtraction of usize below 0, in the walk of a table of the level
Underflow(level) == [ev |-> "underflow", level |-> level, frame |-> 0]

\* zero without its flush
zero_events_noflush(level) == [i \in 1..ENTRY_COUNT |-> Set(level)]

\* HierarchicalTable::zero: set_unused on every entry, then one flush
zero_events(level) == [i \in 1..ENTRY_COUNT |-> Set(level)] \o <<Flush>>

\* HierarchicalTable::guard_all_entries: set_guard on every entry, then
\* one flush
guard_all_entries_events(level) ==
    [i \in 1..ENTRY_COUNT |-> Set(level)] \o <<Flush>>

\* HierarchicalTable::map_nth_entry: set, then flush
map_nth_entry_events(level) == <<Set(level), Flush>>

\* HierarchicalTable::guard_nth_entry: set_guard, then flush
guard_nth_entry_events(level) == <<Set(level), Flush>>

\* HierarchicalTable::unmap_nth_entry: set_unused, then flush
unmap_nth_entry_events(level) == <<Set(level), Flush>>

\* HierarchicalTable::create_child_table on a table of this level: the
\* child is allocated, zeroed, and an entry pointing to it added
create_child_table_events(level) ==
    <<Open(level - 1)>> \o zero_events(level - 1) \o <<Link(level)>>

\* HierarchicalTable::get_child_table on a table of this level
\* a walk that makes the child table it descends into
get_child_table_events_create(level) == create_child_table_events(level)

get_child_table_events(level) == <<Open(level - 1)>>

\* HierarchicalTable::get_child_table_or_create
get_child_table_or_create_events(table, index, level) ==
    IF pointed_frame(table[index]) = "Available"
    THEN create_child_table_events(level)
    ELSE get_child_table_events(level)

----------------------------------------------------------------------------
(* Looking at a hierarchy page by page.                                    *)

\* the state of the entry that decides the page at address a
RECURSIVE EntryAt(_, _, _)
EntryAt(table, level, a) ==
    LET e == table[a \div entry_vm_size(level)]
    IN IF level > 0 /\ e.st = "Present"
       THEN EntryAt(e.child, level - 1, a % entry_vm_size(level))
       ELSE e

Missing == [st |-> "Missing"]

\* the entry of level lv that covers address a, or Missing when a table on
\* the way to it does not exist
RECURSIVE EntryOf(_, _, _, _)
EntryOf(table, level, lv, a) ==
    LET e == table[a \div entry_vm_size(level)]
    IN IF level = lv THEN e
       ELSE IF e.st = "Present"
            THEN EntryOf(e.child, level - 1, lv, a % entry_vm_size(level))
            ELSE Missing

\* the state of page p of the hierarchy t: a page under an Available or
\* Guarded parent entry is Available or Guarded
PageAt(t, p) == EntryAt(t, TOP_LEVEL, p * PAGE_SIZE)

PagesIn(a, l) == { p \in Pages : a <= p * PAGE_SIZE /\ p * PAGE_SIZE < a + l }

RangeAvailable(t, a, l) ==
    /\ a + l <= ADDRESS_SPACE
    /\ \A p \in PagesIn(a, l) : PageAt(t, p).st = "Available"

----------------------------------------------------------------------------
(* map_to_from_iterator                                                    *)

\* rec_map_to's match with the leaf arm taken for a Guarded entry too
rec_map_to_arm_overguard(level, state) ==
    IF level = 0 /\ state \in {"Available", "Guarded"} THEN "map"
    ELSE IF level > 0 /\ state \in {"Available", "Present"} THEN "child"
    ELSE "panic"

\* rec_map_to's match mapping a frame straight into an Available entry of
\* any level, as a huge page
rec_map_to_arm_hugepage(level, state) ==
    IF state = "Available" THEN "map"
    ELSE IF level > 0 /\ state = "Present" THEN "child"
    ELSE "panic"

\* the arm rec_map_to's match takes for an entry
rec_map_to_arm(level, state) ==
    IF level = 0 /\ state = "Available" THEN "map"
    ELSE IF level > 0 /\ state \in {"Available", "Present"} THEN "child"
    ELSE "panic"

RECURSIVE rec_map_to(_, _, _, _, _, _)
RECURSIVE rec_map_to_loop(_, _, _, _, _, _, _)

\* the for loop of rec_map_to, from entry `index` on
rec_map_to_loop(table, level, index, child_start_address, frames, flags, events) ==
    IF index >= ENTRY_COUNT \/ frames = <<>>
    THEN [table |-> table, frames |-> frames, panic |-> FALSE,
          events |-> events]
    ELSE
      LET arm == rec_map_to_arm(level, pointed_frame(table[index]))
      IN CASE arm = "map" ->
                rec_map_to_loop(map_nth_entry(table, index, Head(frames), flags),
                                level, index + 1, child_start_address,
                                Tail(frames), flags,
                                events \o map_nth_entry_events(level))
           [] arm = "child" ->
                LET t1 == get_child_table_or_create(table, index)
                    r == rec_map_to(get_child_table(t1, index), level - 1,
                                    frames, child_start_address, flags,
                                    events \o get_child_table_or_create_events(
                                                  table, index, level))
                    t2 == put_child_table(t1, index, r.table)
                IN IF r.panic
                   THEN [table |-> t2, frames |-> r.frames, panic |-> TRUE,
                         events |-> r.events]
                   ELSE rec_map_to_loop(t2, level, index + 1, 0, r.frames,
                                        flags, Append(r.events, Close(level - 1)))
           [] OTHER ->
                [table |-> table, frames |-> frames, panic |-> TRUE,
                 events |-> Append(events, Panic)]

rec_map_to(table, level, frames, start_address, flags, events) ==
    LET entry_offset == start_address \div entry_vm_size(level)
    IN IF entry_offset >= ENTRY_COUNT
       THEN [table |-> table, frames |-> frames, panic |-> TRUE,
             events |-> Append(events, Panic)]
       ELSE rec_map_to_loop(table, level, entry_offset,
                            start_address % entry_vm_size(level), frames, flags,
                            events)

\* the events of a call that returned: the handle to the top level table
\* is dropped last
Returning(r) ==
    IF r.panic THEN r
    ELSE [r EXCEPT !.events = Append(r.events, Close(TOP_LEVEL))]

map_to_from_iterator(table, frames, start_address, flags) ==
    IF start_address % PAGE_SIZE # 0
    THEN [table |-> table, frames |-> frames, panic |-> TRUE,
          events |-> <<Panic>>]
    ELSE Returning(rec_map_to(table, TOP_LEVEL, frames, start_address, flags,
                              <<Open(TOP_LEVEL)>>))

----------------------------------------------------------------------------
(* guard                                                                   *)

\* rec_guard's match without huge guards: a parent always gets a child
rec_guard_arm_nohuge(level, state, length, child_start_address) ==
    IF state = "Guarded" THEN "panic"
    ELSE IF level = 0 /\ state = "Present" THEN "panic"
    ELSE IF state = "Present" THEN "child"
    ELSE IF level = 0 THEN "guard"
    ELSE "create"

\* rec_guard's match guarding a whole entry even when the walk enters it
\* in the middle of its span
rec_guard_arm_unaligned(level, state, length, child_start_address) ==
    IF state = "Guarded" THEN "panic"
    ELSE IF level = 0 /\ state = "Present" THEN "panic"
    ELSE IF state = "Present" THEN "child"
    ELSE IF length >= entry_vm_size(level) THEN "guard"
    ELSE IF level > 0 THEN "create"
    ELSE "panic"

\* rec_guard's match guarding again a leaf entry that is already Guarded
rec_guard_arm_reguard(level, state, length, child_start_address) ==
    IF state = "Guarded" /\ level = 0 THEN "guard"
    ELSE IF state = "Guarded" THEN "panic"
    ELSE IF level = 0 /\ state = "Present" THEN "panic"
    ELSE IF state = "Present" THEN "child"
    ELSE IF length >= entry_vm_size(level) /\ child_start_address = 0
         THEN "guard"
    ELSE IF level > 0 THEN "create"
    ELSE "panic"

\* the arm rec_guard's match takes for an entry
rec_guard_arm(level, state, length, child_start_address) ==
    IF state = "Guarded" THEN "panic"
    ELSE IF level = 0 /\ state = "Present" THEN "panic"
    ELSE IF state = "Present" THEN "child"
    ELSE IF length >= entry_vm_size(level) /\ child_start_address = 0
         THEN "guard"
    ELSE IF level > 0 THEN "create"
    ELSE "panic"

RECURSIVE rec_guard(_, _, _, _, _)
RECURSIVE rec_guard_loop(_, _, _, _, _, _)

\* the for loop of rec_guard, from entry `entry_index` on
rec_guard_loop(table, level, entry_index, child_start_address, length, events) ==
    IF entry_index >= ENTRY_COUNT \/ length = 0
    THEN [table |-> table, length |-> length, panic |-> FALSE,
          events |-> events]
    ELSE
      LET arm == rec_guard_arm(level, pointed_frame(table[entry_index]),
                               length, child_start_address)
      IN CASE arm = "guard" ->
                rec_guard_loop(guard_nth_entry(table, entry_index), level,
                               entry_index + 1, 0,
                               length - entry_vm_size(level),
                               events \o guard_nth_entry_events(level))
           [] arm \in {"child", "create"} ->
                LET t1 == IF arm = "create"
                          THEN create_child_table(table, entry_index)
                          ELSE table
                    e1 == IF arm = "create"
                          THEN create_child_table_events(level)
                          ELSE get_child_table_events(level)
                    r == rec_guard(get_child_table(t1, entry_index), level - 1,
                                   child_start_address, length, events \o e1)
                    t2 == put_child_table(t1, entry_index, r.table)
                IN IF r.panic
                   THEN [table |-> t2, length |-> r.length, panic |-> TRUE,
                         events |-> r.events]
                   ELSE rec_guard_loop(t2, level, entry_index + 1, 0, r.length,
                                       Append(r.events, Close(level - 1)))
           [] OTHER ->
                [table |-> table, length |-> length, panic |-> TRUE,
                 events |-> Append(events, Panic)]

rec_guard(table, level, start_address, length, events) ==
    LET start_entry == start_address \div entry_vm_size(level)
    IN IF start_entry >= ENTRY_COUNT
       THEN [table |-> table, length |-> length, panic |-> TRUE,
             events |-> Append(events, Panic)]
       ELSE rec_guard_loop(table, level, start_entry,
                           start_address % entry_vm_size(level), length, events)

\* guard without the assertion on its length
guard_nolengthcheck(table, address, length) ==
    IF address % PAGE_SIZE # 0
    THEN [table |-> table, length |-> length, panic |-> TRUE,
          events |-> <<Panic>>]
    ELSE Returning(rec_guard(table, TOP_LEVEL, address, length,
                             <<Open(TOP_LEVEL)>>))

guard(table, address, length) ==
    IF address % PAGE_SIZE # 0 \/ length % PAGE_SIZE # 0
    THEN [table |-> table, length |-> length, panic |-> TRUE,
          events |-> <<Panic>>]
    ELSE Returning(rec_guard(table, TOP_LEVEL, address, length,
                             <<Open(TOP_LEVEL)>>))

----------------------------------------------------------------------------
(* unmap                                                                   *)

\* rec_unmap's match with the guard arm taken only when more than the
\* entry's span is left to unmap
rec_unmap_arm_strict(level, state, length) ==
    IF state = "Available" THEN "panic"
    ELSE IF level = 0 /\ state = "Present" THEN "frame"
    ELSE IF state = "Present" THEN "child"
    ELSE IF length > entry_vm_size(level) THEN "guard"
    ELSE IF level > 0 THEN "split"
    ELSE "panic"

\* rec_unmap's match clearing a Present parent entry whose whole span is
\* left to unmap, instead of walking its child
rec_unmap_arm_reclaim(level, state, length) ==
    IF state = "Available" THEN "panic"
    ELSE IF level = 0 /\ state = "Present" THEN "frame"
    ELSE IF state = "Present" /\ length >= entry_vm_size(level) THEN "guard"
    ELSE IF state = "Present" THEN "child"
    ELSE IF length >= entry_vm_size(level) THEN "guard"
    ELSE IF level > 0 THEN "split"
    ELSE "panic"

\* the arm rec_unmap's match takes for an entry
rec_unmap_arm(level, state, length) ==
    IF state = "Available" THEN "panic"
    ELSE IF level = 0 /\ state = "Present" THEN "frame"
    ELSE IF state = "Present" THEN "child"
    ELSE IF length >= entry_vm_size(level) THEN "guard"
    ELSE IF level > 0 THEN "split"
    ELSE "panic"

\* the leaf arm handing the frames over last in, first out
unmap_frame_lifo(table, entry_index, callbacks) ==
    [table |-> [table EXCEPT ![entry_index] = [st |-> "Available"]],
     callbacks |-> <<table[entry_index].frame>> \o callbacks]

\* the leaf arm: the entry is cleared, then the callback gets its frame
unmap_frame(table, entry_index, callbacks) ==
    [table |-> unmap_nth_entry(table, entry_index),
     callbacks |-> Append(callbacks, table[entry_index].frame)]

\* the leaf arm invoking the callback before it clears the entry
unmap_frame_events_callbackfirst(table, entry_index) ==
    <<Callback(table[entry_index].frame)>> \o unmap_nth_entry_events(0)

\* the leaf arm: unmap_nth_entry, then callback(paddr)
unmap_frame_events(table, entry_index) ==
    unmap_nth_entry_events(0) \o <<Callback(table[entry_index].frame)>>

\* the split arm: unmap_nth_entry, create_child_table, guard_all_entries
\* on the child
split_huge_guard_events(level) ==
    unmap_nth_entry_events(level) \o create_child_table_events(level)
        \o guard_all_entries_events(level - 1)

\* the split arm: the huge guard is cleared, a child created in its place
\* and filled with guards
split_huge_guard(table, entry_index) ==
    LET t1 == create_child_table(unmap_nth_entry(table, entry_index),
                                 entry_index)
    IN put_child_table(t1, entry_index,
                       guard_all_entries(get_child_table(t1, entry_index)))

\* the entries of a table and of the tables under it, as they are in
\* memory at one point of the walk
RECURSIVE Snapshot(_, _)
RECURSIVE SnapshotFrom(_, _, _)
SnapshotFrom(table, level, i) ==
    LET e == table[i]
        entry == IF level > 0 /\ e.st = "Present"
                 THEN PresentTable(Snapshot(e.child, level - 1))
                 ELSE e
    IN  IF i = ENTRY_COUNT - 1 THEN i :> entry
        ELSE (i :> entry) @@ SnapshotFrom(table, level, i + 1)
Snapshot(table, level) == SnapshotFrom(table, level, 0)

\* the table of a level as a flush_whole_cache finds it, and where the
\* span of the entry written begins
Flushed(at, level, entry_index, table) ==
    [at |-> at, level |-> level, base |-> entry_index * entry_vm_size(level),
     table |-> Snapshot(table, level)]

\* a split arm that makes and fills the child before it lets go of the
\* huge guard
split_huge_guard_flushed_childfirst(table, entry_index, level) ==
    <<Flushed("split", level, entry_index, table),
      Flushed("zero", level, entry_index, table),
      Flushed("guard_all_entries", level, entry_index,
              split_huge_guard(table, entry_index))>>

\* the split arm, flush by flush: unmap_nth_entry clears the entry, the
\* child is zeroed before the entry points to it, guard_all_entries fills
\* the child that the entry points to
split_huge_guard_flushed(table, entry_index, level) ==
    <<Flushed("split", level, entry_index,
              unmap_nth_entry(table, entry_index)),
      Flushed("zero", level, entry_index,
              unmap_nth_entry(table, entry_index)),
      Flushed("guard_all_entries", level, entry_index,
              split_huge_guard(table, entry_index))>>

\* what the flushes of the walk of a child leave in the table of the level
RECURSIVE InParent(_, _, _, _)
InParent(flushed, parent, entry_index, level) ==
    IF flushed = << >> THEN << >>
    ELSE <<[at |-> Head(flushed).at, level |-> Head(flushed).level,
            base |-> Head(flushed).base + entry_index * entry_vm_size(level),
            table |-> (entry_index :> PresentTable(Head(flushed).table))
                          @@ Snapshot(parent, level)]>>
         \o InParent(Tail(flushed), parent, entry_index, level)

RECURSIVE rec_unmap(_, _, _, _, _, _)
RECURSIVE rec_unmap_loop(_, _, _, _, _, _, _, _)

\* the for loop of rec_unmap, from entry `entry_index` on
rec_unmap_loop(table, level, entry_index, child_start_address, length, callbacks, events, flushed) ==
    IF entry_index >= ENTRY_COUNT \/ length = 0
    THEN [table |-> table, length |-> length, callbacks |-> callbacks,
          panic |-> FALSE, events |-> events, flushed |-> flushed]
    ELSE
      LET arm == rec_unmap_arm(level, pointed_frame(table[entry_index]), length)
      IN CASE arm = "frame" ->
                LET u == unmap_frame(table, entry_index, callbacks)
                IN rec_unmap_loop(u.table, level, entry_index + 1, 0,
                                  length - entry_vm_size(level), u.callbacks,
                                  events \o unmap_frame_events(table, entry_index),
                                  Append(flushed,
                                         Flushed("unmap_nth_entry", level,
                                                 entry_index, u.table)))
           [] arm = "guard" ->
                rec_unmap_loop(unmap_nth_entry(table, entry_index), level,
                               entry_index + 1, 0,
                               length - entry_vm_size(level), callbacks,
                               events \o unmap_nth_entry_events(level),
                               Append(flushed,
                                      Flushed("unmap_nth_entry", level,
                                              entry_index,
                                              unmap_nth_entry(table, entry_index))))
           [] arm \in {"child", "split"} ->
                LET t1 == IF arm = "split"
                          THEN split_huge_guard(table, entry_index)
                          ELSE table
                    e1 == IF arm = "split"
                          THEN split_huge_guard_events(level)
                          ELSE get_child_table_events(level)
                    f1 == IF arm = "split"
                          THEN flushed \o split_huge_guard_flushed(
                                              table, entry_index, level)
                          ELSE flushed
                    r == rec_unmap(get_child_table(t1, entry_index), level - 1,
                                   child_start_address, length, callbacks,
                                   events \o e1)
                    t2 == put_child_table(t1, entry_index, r.table)
                    f2 == f1 \o InParent(r.flushed, t1, entry_index, level)
                IN IF r.panic
                   THEN [table |-> t2, length |-> r.length,
                         callbacks |-> r.callbacks, panic |-> TRUE,
                         events |-> r.events, flushed |-> f2]
                   ELSE rec_unmap_loop(t2, level, entry_index + 1, 0,
                                       r.length, r.callbacks,
                                       Append(r.events, Close(level - 1)), f2)
           [] OTHER ->
                [table |-> table, length |-> length, callbacks |-> callbacks,
                 panic |-> TRUE, events |-> Append(events, Panic),
                 flushed |-> flushed]

rec_unmap(table, level, start_address, length, callbacks, events) ==
    LET start_offset == start_address \div entry_vm_size(level)
    IN IF start_offset >= ENTRY_COUNT
       THEN [table |-> table, length |-> length, callbacks |-> callbacks,
             panic |-> TRUE, events |-> Append(events, Panic),
             flushed |-> << >>]
       ELSE rec_unmap_loop(table, level, start_offset,
                           start_address % entry_vm_size(level), length,
                           callbacks, events, << >>)

unmap(table, address, length) ==
    IF address % PAGE_SIZE # 0 \/ length % PAGE_SIZE # 0
    THEN [table |-> table, length |-> length, callbacks |-> <<>>,
          panic |-> TRUE, events |-> <<Panic>>, flushed |-> << >>]
    ELSE Returning(rec_unmap(table, TOP_LEVEL, address, length, <<>>,
                             <<Open(TOP_LEVEL)>>))

----------------------------------------------------------------------------
(* for_every_entry                                                         *)

\* pointed_frame without the physical address of a Present entry
page_state_noframe(entry) == [st |-> entry.st]

\* HierarchicalEntry::pointed_frame as the callback of for_every_entry
\* gets it: Present carries the physical address, not the flags
page_state(entry) ==
    IF entry.st = "Present"
    THEN [st |-> "Present", frame |-> entry.frame]
    ELSE [st |-> entry.st]

\* the report of an entry with the span of a leaf entry, whatever its level
iter_report_leafsize(entry, level) ==
    [state |-> page_state(entry), size |-> PAGE_SIZE]

\* what rec_iter's callback is invoked with for an entry of a table of
\* the given level
iter_report(entry, level) ==
    [state |-> page_state(entry), size |-> entry_vm_size(level)]

\* usize::saturating_sub
saturating_sub(a, b) == IF a < b THEN 0 ELSE a - b

\* the arm rec_iter's match takes for an entry
rec_iter_arm(level, state) ==
    IF level # 0 /\ state = "Present" THEN "child" ELSE "report"

RECURSIVE rec_iter(_, _, _, _, _, _)
RECURSIVE rec_iter_loop(_, _, _, _, _, _, _)

\* the for loop of rec_iter, from entry `entry_index` on; the walk only
\* reads the tables
rec_iter_loop(table, level, entry_index, child_start_address, length, reports, events) ==
    IF entry_index >= ENTRY_COUNT \/ length = 0
    THEN [length |-> length, reports |-> reports, panic |-> FALSE,
          events |-> events]
    ELSE
      IF rec_iter_arm(level, pointed_frame(table[entry_index])) = "child"
      THEN LET r == rec_iter(get_child_table(table, entry_index), level - 1,
                             child_start_address, length, reports,
                             events \o get_child_table_events(level))
           IN IF r.panic THEN r
              ELSE rec_iter_loop(table, level, entry_index + 1, 0,
                                 r.length, r.reports,
                                 Append(r.events, Close(level - 1)))
      ELSE rec_iter_loop(table, level, entry_index + 1, 0,
                         saturating_sub(length, entry_vm_size(level)),
                         Append(reports, iter_report(table[entry_index], level)),
                         events)

rec_iter(table, level, start_address, length, reports, events) ==
    LET start_offset == start_address \div entry_vm_size(level)
    IN IF start_offset >= ENTRY_COUNT
       THEN [length |-> length, reports |-> reports, panic |-> TRUE,
             events |-> Append(events, Panic)]
       ELSE rec_iter_loop(table, level, start_offset,
                          start_address % entry_vm_size(level), length, reports,
                          events)

for_every_entry(table, address, length) ==
    IF address % PAGE_SIZE # 0 \/ length % PAGE_SIZE # 0
    THEN [length |-> length, reports |-> << >>, panic |-> TRUE,
          events |-> <<Panic>>]
    ELSE Returning(rec_iter(table, TOP_LEVEL, address, length, << >>,
                            <<Open(TOP_LEVEL)>>))

----------------------------------------------------------------------------
(* destroy                                                                 *)

\* RecursiveTablesLand: the span of the last entry of the top level table,
\* the slot the hierarchy reserves for reaching its own tables
RecursiveTablesLand_start_addr == (ENTRY_COUNT - 1) * entry_vm_size(TOP_LEVEL)
RecursiveTablesLand_length == entry_vm_size(TOP_LEVEL)

\* InactiveHierarchyTrait::destroy: unmap of RecursiveTablesLand; callbacks
\* are the frames handed to PhysicalMemRegion::reconstruct
destroy(table) ==
    unmap(table, RecursiveTablesLand_start_addr, RecursiveTablesLand_length)

----------------------------------------------------------------------------
(* find_available_virtual_space_aligned                                    *)

Min(a, b) == IF a < b THEN a ELSE b

\* usize::saturating_add
saturating_add(a, b) == Min(a + b, USIZE_MAX)

\* bitwise and of two naturals
RECURSIVE BitAnd(_, _)
BitAnd(a, b) ==
    IF a = 0 \/ b = 0 THEN 0
    ELSE (a % 2) * (b % 2) + 2 * BitAnd(a \div 2, b \div 2)

None == [some |-> FALSE, addr |-> 0, outcome |-> "return"]
Some(x) == [some |-> TRUE, addr |-> x, outcome |-> "return"]
Panicked == [some |-> FALSE, addr |-> 0, outcome |-> "panic"]
Hangs == [some |-> FALSE, addr |-> 0, outcome |-> "hang"]

\* an align_up_checked that rounds down
align_up_checked_down(addr, align, checked) ==
    IF align = 0 THEN Panicked ELSE Some(addr - (addr % align))

\* utils::align_up_checked.  `checked` is whether the build traps integer
\* overflow (debug) or wraps (release); align - 1 wraps to USIZE_MAX, and
\* addr % 0 panics in every build.
align_up_checked(addr, align, checked) ==
    IF align = 0
    THEN IF checked THEN Panicked
         ELSE IF BitAnd(addr, USIZE_MAX) = 0 THEN Some(addr) ELSE Panicked
    ELSE IF BitAnd(addr, align - 1) = 0 THEN Some(addr)
    ELSE IF addr + (align - (addr % align)) > USIZE_MAX THEN None
    ELSE Some(addr + (align - (addr % align)))

\* the arm rec_find's match takes for an entry
rec_find_arm(level, state) ==
    IF state = "Available" THEN "grow"
    ELSE IF (level = 0 /\ state = "Present") \/ state = "Guarded" THEN "restart"
    ELSE "child"

\* the hole after an obstruction: a new hole on the next aligned address
restart_hole(hole, alignment) ==
    [start_addr |-> saturating_add(hole.start_addr, alignment), len |-> 0]

\* rec_find: the hole it leaves, and whether it returned.  The walk only
\* reads the tables.  With alignment 0 an obstruction resets the hole to
\* the start it already had, from where the walk grows it to the same
\* obstruction again: the loop never ends, unless the hole started before
\* this table and the subtraction of the next loop condition traps.
RECURSIVE rec_find(_, _, _, _, _, _, _, _, _)
rec_find(table, level, table_addr, hole, desired_length, end_addr, alignment, checked, events0) ==
    LET reach == saturating_add(hole.start_addr, hole.len)
        underflow == reach < table_addr
        next_entry_index == ((reach - table_addr) % (USIZE_MAX + 1))
                                \div entry_vm_size(level)
        events == IF underflow THEN Append(events0, Underflow(level))
                  ELSE events0
    IN IF underflow /\ checked
       THEN [hole |-> hole, outcome |-> "panic",
             events |-> Append(events, Panic)]
       ELSE IF ~ ( /\ next_entry_index < ENTRY_COUNT
                   /\ hole.len < desired_length
                   /\ hole.start_addr + desired_length <= USIZE_MAX
                   /\ hole.start_addr + desired_length <= end_addr )
       THEN [hole |-> hole, outcome |-> "return", events |-> events]
       ELSE
         LET arm == rec_find_arm(level, pointed_frame(table[next_entry_index]))
         IN CASE arm = "grow" ->
                   IF hole.len + entry_vm_size(level) > USIZE_MAX /\ checked
                   THEN [hole |-> hole, outcome |-> "panic",
                         events |-> Append(events, Panic)]
                   ELSE rec_find(table, level, table_addr,
                                 [hole EXCEPT !.len =
                                      (hole.len + entry_vm_size(level))
                                          % (USIZE_MAX + 1)],
                                 desired_length, end_addr, alignment, checked,
                                 events)
              [] arm = "restart" ->
                   IF alignment = 0
                   THEN IF checked /\ hole.start_addr < table_addr
                        THEN [hole |-> restart_hole(hole, alignment),
                              outcome |-> "panic",
                              events |-> Append(events, Panic)]
                        ELSE [hole |-> restart_hole(hole, alignment),
                              outcome |-> "hang", events |-> events]
                   ELSE rec_find(table, level, table_addr,
                                 restart_hole(hole, alignment),
                                 desired_length, end_addr, alignment, checked,
                                 events)
              [] OTHER ->
                   LET r == rec_find(get_child_table(table, next_entry_index),
                                     level - 1,
                                     table_addr + next_entry_index
                                                    * entry_vm_size(level),
                                     hole, desired_length, end_addr,
                                     alignment, checked,
                                     events \o get_child_table_events(level))
                   IN IF r.outcome # "return" THEN r
                      ELSE rec_find(table, level, table_addr, r.hole,
                                    desired_length, end_addr, alignment,
                                    checked,
                                    Append(r.events, Close(level - 1)))

\* find_available_virtual_space_aligned: what it returns and the events
\* of its walk
find_walk(table, length, start_addr, end_addr, alignment, checked) ==
    IF \/ start_addr % PAGE_SIZE # 0
       \/ length % PAGE_SIZE # 0
       \/ alignment % PAGE_SIZE # 0
       \/ start_addr > end_addr
       \/ length = 0
    THEN [ret |-> Panicked, events |-> <<Panic>>]
    ELSE IF length > end_addr - start_addr
    THEN [ret |-> None, events |-> << >>]
    ELSE
      LET first_aligned_addr == align_up_checked(start_addr, alignment, checked)
      IN IF first_aligned_addr.outcome = "panic"
         THEN [ret |-> Panicked, events |-> <<Panic>>]
         ELSE IF ~first_aligned_addr.some
         THEN [ret |-> None, events |-> << >>]
         ELSE
           LET r == rec_find(table, TOP_LEVEL, 0,
                             [start_addr |-> first_aligned_addr.addr,
                              len |-> 0],
                             length, end_addr, alignment, checked,
                             <<Open(TOP_LEVEL)>>)
           IN IF r.outcome = "panic"
              THEN [ret |-> Panicked, events |-> r.events]
              ELSE IF r.outcome = "hang"
              THEN [ret |-> Hangs, events |-> r.events]
              ELSE [ret |-> IF r.hole.len >= length
                            THEN Some(r.hole.start_addr) ELSE None,
                    events |-> Append(r.events, Close(TOP_LEVEL))]

find_available_virtual_space_aligned(table, length, start_addr, end_addr, alignment, checked) ==
    find_walk(table, length, start_addr, end_addr, alignment, checked).ret

\* the events of the walk of find_available_virtual_space_aligned
find_events(table, length, start_addr, end_addr, alignment, checked) ==
    find_walk(table, length, start_addr, end_addr, alignment, checked).events

----------------------------------------------------------------------------
(* The scheduler (kernel/src/scheduler.rs).                                *)

MaxProcesses == 3
\* calls of add_to_schedule_queue that have begun and not returned
MaxAdds == 2
Processes == 1 .. MaxProcesses
NoProcess == 0
\* the process made by create_first_process
FirstProcess == 1
\* no count of schedule() calls is kept for the process
NoBudget == 0 - 1

NoSchedOp == [op |-> "none", queue_before |-> << >>,
              current_before |-> NoProcess, process |-> NoProcess,
              pstate_before |-> "Stopped", held_before |-> {},
              panic |-> FALSE]

\* SCHEDULE_QUEUE is Vec::new(), CURRENT_PROCESS is None; a process that
\* was never scheduled is Stopped and nobody holds its lock
SchedInit ==
    [queue |-> << >>, current |-> NoProcess,
     pstate |-> [p \in Processes |-> "Stopped"],
     locked |-> {}, adding |-> << >>,
     hlt_pending |-> FALSE, halted |-> FALSE, panicked |-> FALSE,
     budget |-> [p \in Processes |-> NoBudget], last |-> NoSchedOp]

InQueue(queue, p) == \E i \in 1 .. Len(queue) : queue[i] = p

\* Vec::remove: the elements after index are shifted to the front
remove(queue, index) ==
    [i \in 1 .. Len(queue) - 1 |-> IF i < index THEN queue[i]
                                   ELSE queue[i + 1]]

\* create_first_process: the queue must be empty; CURRENT_PROCESS is set
create_first_process(s) ==
    IF s.queue # << >>
    THEN [s EXCEPT !.panicked = TRUE]
    ELSE [s EXCEPT !.current = FirstProcess,
                   !.pstate[FirstProcess] = "Running"]

\* is_in_schedule_queue: the current process when it is Running, chained
\* with the queue
is_in_schedule_queue(s, process) ==
    \/ s.current # NoProcess /\ s.pstate[s.current] = "Running"
         /\ s.current = process
    \/ InQueue(s.queue, process)

\* the calls of add_to_schedule_queue in progress on the stack of the
\* current process, the last one being the one that runs
OwnAdds(s) == { k \in 1 .. Len(s.adding) : s.adding[k].owner = s.current }
Adding(s) == OwnAdds(s) # {}
ActiveAdd(s) == CHOOSE k \in OwnAdds(s) : \A m \in OwnAdds(s) : m <= k

\* the CPU is in the (None, true) arm of internal_schedule: nobody runs
Idle(s) == s.hlt_pending \/ s.halted
\* the handler of an interrupt that came in that arm has not returned
InHandler(s) == Adding(s) /\ s.adding[ActiveAdd(s)].irq
\* the last call begun on the stack of the current process can go on: a
\* call interrupted by the scheduler waits for the process to run again
CanStep(s) == Adding(s) /\ (Idle(s) => s.adding[ActiveAdd(s)].irq)

\* the processes whose lock is held for writing
Held(s) ==
    s.locked \cup { s.adding[k].process :
                      k \in { m \in 1 .. Len(s.adding) :
                                 s.adding[m].pc = "locked" } }

SchedBefore(s, op) ==
    [s EXCEPT !.last = [NoSchedOp EXCEPT !.op = op,
                                         !.queue_before = s.queue,
                                         !.current_before = s.current,
                                         !.held_before = Held(s)]]

\* add_to_schedule_queue up to its first assertion: the process must not
\* be in the schedule queue
add_check(s, process) ==
    IF is_in_schedule_queue(s, process)
    THEN [s EXCEPT !.panicked = TRUE, !.last.panic = TRUE]
    ELSE [s EXCEPT !.adding = Append(s.adding,
                                [process |-> process, pc |-> "checked",
                                 owner |-> s.current, irq |-> Idle(s)])]

\* add_to_schedule_queue: process.write()
add_lock(s) == [s EXCEPT !.adding[ActiveAdd(s)].pc = "locked"]

\* an end of add_to_schedule_queue that pushes whatever the state is
add_push_unasserted(s) ==
    LET k == ActiveAdd(s)
        process == s.adding[k].process
    IN  [s EXCEPT !.pstate[process] = "Scheduled",
                  !.queue = Append(s.queue, process),
                  !.adding = remove(s.adding, k)]

\* add_to_schedule_queue from SCHEDULE_QUEUE.lock() to its end: the state
\* must be Stopped; it becomes Scheduled, the lock of the process is
\* dropped and the process is pushed
add_push(s) ==
    LET k == ActiveAdd(s)
        process == s.adding[k].process
    IN  IF s.pstate[process] # "Stopped"
        THEN [s EXCEPT !.panicked = TRUE, !.last.panic = TRUE]
        ELSE [s EXCEPT !.pstate[process] = "Scheduled",
                       !.queue = Append(s.queue, process),
                       !.adding = remove(s.adding, k)]

\* add_to_schedule_queue when nothing interrupts it
add_to_schedule_queue(s, process) ==
    LET checked == add_check(s, process)
    IN  IF checked.panicked THEN checked
        ELSE add_push(add_lock(checked))

\* a scan that takes the last process whose lock is free
find_next_process_to_run_last(s) ==
    IF \E i \in 1 .. Len(s.queue) : s.queue[i] \notin Held(s)
    THEN CHOOSE i \in 1 .. Len(s.queue) :
            /\ s.queue[i] \notin Held(s)
            /\ \A j \in i + 1 .. Len(s.queue) : s.queue[j] \in Held(s)
    ELSE 0

\* find_next_process_to_run: the first process whose lock try_write gets,
\* 0 for None
find_next_process_to_run(s) ==
    IF \E i \in 1 .. Len(s.queue) : s.queue[i] \notin Held(s)
    THEN CHOOSE i \in 1 .. Len(s.queue) :
            /\ s.queue[i] \notin Held(s)
            /\ \A j \in 1 .. i - 1 : s.queue[j] \in Held(s)
    ELSE 0

\* process_switch(process_b, proc) and the CURRENT_PROCESS = whoami made by
\* the process switched to: process_b runs
process_switch(s, process_b) ==
    [s EXCEPT !.current = process_b,
              !.pstate = [p \in Processes |->
                             IF p = process_b THEN "Running"
                             ELSE IF p = s.current /\ s.pstate[p] = "Running"
                                  THEN "Scheduled"
                                  ELSE s.pstate[p]]]

\* one turn of the loop of internal_schedule, up to hlt when nobody can
\* run: the queue lock and the interrupt lock are dropped by then
internal_schedule(s, remove_self) ==
    LET index_b == find_next_process_to_run(s) IN
    IF index_b = 0
    THEN IF remove_self
         THEN [s EXCEPT !.hlt_pending = TRUE]
         ELSE s                           \* keep running ourselves
    ELSE LET process_b == s.queue[index_b]
             removed == remove(s.queue, index_b)
             pushed == IF remove_self THEN removed
                       ELSE Append(removed, s.current)
             q == [s EXCEPT !.queue = pushed]
         IN  IF process_b # s.current THEN process_switch(q, process_b)
             ELSE q

\* the hlt of internal_schedule: the CPU stops until an interrupt
hlt(s) == [s EXCEPT !.hlt_pending = FALSE, !.halted = TRUE]

\* after hlt: the interrupt lock is taken again and the loop runs again
continue(s) == internal_schedule([s EXCEPT !.halted = FALSE], TRUE)

schedule(s) == internal_schedule(s, FALSE)

\* unschedule: the current process is Stopped and taken off
unschedule(s) ==
    internal_schedule([s EXCEPT !.pstate[s.current] = "Stopped"], TRUE)

\* the processes a turn of internal_schedule finds locked before it finds
\* one to run
Skipped(s) ==
    LET index_b == find_next_process_to_run(s)
        upto == IF index_b = 0 THEN Len(s.queue) ELSE index_b - 1
    IN  { s.queue[j] : j \in 1 .. upto }

Position(queue, p) == CHOOSE i \in 1 .. Len(queue) : queue[i] = p

\* the calls of schedule() a queued process may still have to wait for,
\* if it is to run within index + 1 calls from where it entered the
\* queue; no count for a process that was found locked
Counted(before, after, calls) ==
    [after EXCEPT !.budget = [p \in Processes |->
        IF ~InQueue(after.queue, p) THEN NoBudget
        ELSE IF ~InQueue(before.queue, p) THEN Position(after.queue, p)
        ELSE IF before.budget[p] = NoBudget \/ p \in Skipped(before)
             THEN NoBudget
        ELSE before.budget[p] - calls]]

----------------------------------------------------------------------------
(* The event loop of an IPC server (libuser/src/ipc/server.rs).            *)

MaxWaitables == 4
Waitables == 1 .. MaxWaitables
\* what the signalled handle has for its waitable: an error of the
\* syscall, a request (type 4 or 6), a close (type 2), a control command
\* the server does not support, QueryPointerBufferSize, anything else
Messages == {"error", "request", "close", "control_unsupported",
             "query_pointer_buffer_size", "other"}
Kinds == {"port", "session"}

NoSignal == [idx |-> 0, waitable |-> 0, result |-> "none"]

\* WaitableManager::new, and a run whose waitables is Vec::new()
ServerInit ==
    [to_add_waitables |-> << >>, waitables |-> << >>,
     kind |-> [w \in Waitables |-> "session"], made |-> 0, last |-> NoSignal]

\* add_waitable: pushed on to_add_waitables
add_waitable(s, k) ==
    [s EXCEPT !.made = s.made + 1, !.kind[s.made + 1] = k,
              !.to_add_waitables = Append(s.to_add_waitables, s.made + 1)]

\* PortHandler::handle_signaled: accept, add the session, Ok(false)
PortHandler_handle_signaled(s, msg) ==
    IF msg = "error" THEN [result |-> "Err", manager |-> s]
    ELSE [result |-> "Ok(false)", manager |-> add_waitable(s, "session")]

\* SessionWrapper::handle_signaled, dispatch_fails being the outcome of
\* the dispatch function or of the reply
SessionWrapper_handle_signaled(s, msg, dispatch_fails) ==
    CASE msg = "error" -> [result |-> "Err", manager |-> s]
      [] msg = "request" ->
            [result |-> IF dispatch_fails THEN "Err" ELSE "Ok(false)",
             manager |-> s]
      [] msg = "query_pointer_buffer_size" ->
            [result |-> IF dispatch_fails THEN "Err" ELSE "Ok(false)",
             manager |-> s]
      [] OTHER -> [result |-> "Ok(true)", manager |-> s]

handle_signaled(s, w, msg, dispatch_fails) ==
    IF s.kind[w] = "port" THEN PortHandler_handle_signaled(s, msg)
    ELSE SessionWrapper_handle_signaled(s, msg, dispatch_fails)

\* one turn of the loop of WaitableManager::run, the handle at idx being
\* the one wait_synchronization returns
run(s, idx, msg, dispatch_fails) ==
    LET drained == [s EXCEPT !.waitables = s.waitables \o s.to_add_waitables,
                             !.to_add_waitables = << >>]
        w == drained.waitables[idx]
        r == handle_signaled(drained, w, msg, dispatch_fails)
        kept == r.manager.waitables
    IN  [r.manager EXCEPT
            !.waitables = IF r.result = "Ok(false)" THEN kept
                          ELSE remove(kept, idx),
            !.last = [idx |-> idx, waitable |-> w, result |-> r.result]]

----------------------------------------------------------------------------
(* set_bits_area on a bit array (libutils/src/lib.rs).                     *)

\* bits of one element of the array (u32 in the tests)
BIT_LENGTH == 2
\* elements of the largest array
MaxWords == 2
\* largest bound of a range
MaxBound == 5

Bounds == [kind : {"Unbounded"}, b : {0}]
            \cup [kind : {"Included", "Excluded"}, b : 0 .. MaxBound]
Ranges == [start : {x \in Bounds : x.kind # "Excluded"}, end : Bounds]

NoSetBits == [made |-> FALSE, range |-> [start |-> [kind |-> "Unbounded", b |-> 0],
                                         end |-> [kind |-> "Unbounded", b |-> 0]],
              value |-> FALSE, panic |-> FALSE]

\* an array of no element
BitArrayInit == [bits |-> << >>, before |-> << >>, last |-> NoSetBits]

\* [0; n]
new_array(n) == [i \in 1 .. n * BIT_LENGTH |-> FALSE]

\* BitArray::bit_length of a slice
bit_length(bits) == Len(bits)

\* `for i in start..=end { self.set_bit(i, value) }`: set_bit panics on an
\* index outside the array, the bits set before staying set
RECURSIVE set_bits_loop(_, _, _, _)
set_bits_loop(bits, i, end, value) ==
    IF i > end THEN [bits |-> bits, panic |-> FALSE]
    ELSE IF i >= bit_length(bits) THEN [bits |-> bits, panic |-> TRUE]
    ELSE set_bits_loop([bits EXCEPT ![i + 1] = value], i + 1, end, value)

\* set_bits_area; `bit_length() - 1` of an empty array overflows usize: a
\* panic where overflow is checked, usize::MAX otherwise, and then the
\* first set_bit panics
set_bits_area(bits, range, value) ==
    LET start == IF range.start.kind = "Unbounded" THEN 0 ELSE range.start.b
    IN  IF range.end.kind = "Excluded" /\ range.end.b = 0
        THEN [bits |-> bits, panic |-> FALSE]
        ELSE IF range.end.kind = "Unbounded" /\ bit_length(bits) = 0
        THEN [bits |-> bits, panic |-> TRUE]
        ELSE LET end == CASE range.end.kind = "Unbounded" ->
                                bit_length(bits) - 1
                          [] range.end.kind = "Included" -> range.end.b
                          [] OTHER -> range.end.b - 1
             IN  set_bits_loop(bits, start, end, value)

----------------------------------------------------------------------------
(* SpinLockIRQ (kernel/src/sync/spin_lock_irq.rs), on one CPU.             *)

\* values of an AtomicU8
U8_MODULUS == 256

\* SpinLockIRQs told apart by the model
MaxLocks == 2
\* further SpinLockIRQs, told apart only by how many of them are locked
MaxFurtherLocks == 255

Locks == 1 .. MaxLocks

NoOp == [op |-> "none", lock |-> 0, ok |-> TRUE, via |-> "lock",
         counter_before |-> 0, enabled_before |-> TRUE]

\* INTERRUPT_DISABLE_COUNTER is 0, no lock is held, CPU locals are
\* initialized and interrupts are enabled (interrupts::init ends with sti)
IrqInit ==
    [counter |-> 0, enabled |-> TRUE, disarm |-> FALSE, initialized |-> TRUE,
     guard |-> [l \in Locks |-> [alive |-> FALSE, via |-> "lock",
                                  saved |-> TRUE]],
     further |-> 0, spinning |-> FALSE, last |-> NoOp]

\* disable_interrupts: fetch_add(1) == 0 does cli
disable_interrupts(s) ==
    IF ~s.disarm /\ s.initialized
    THEN [s EXCEPT !.counter = (s.counter + 1) % U8_MODULUS,
                   !.enabled = IF s.counter = 0 THEN FALSE ELSE s.enabled]
    ELSE s

\* enable_interrupts: fetch_sub(1) == 1 does sti
enable_interrupts(s) ==
    IF ~s.disarm /\ s.initialized
    THEN [s EXCEPT !.counter = (s.counter - 1) % U8_MODULUS,
                   !.enabled = IF s.counter = 1 THEN TRUE ELSE s.enabled]
    ELSE s

Before(s, op, l) ==
    [op |-> op, lock |-> l, ok |-> TRUE, via |-> "lock",
     counter_before |-> s.counter, enabled_before |-> s.enabled]

\* the CPU takes an interrupt through an interrupt gate: the interrupt
\* flag is cleared on entry to the handler, the counter is not touched
interrupt_gate(s) ==
    [s EXCEPT !.enabled = FALSE, !.last = Before(s, "interrupt", 0)]

\* SpinLockIRQ::lock: disable_interrupts, then internal.lock(), which
\* spins for ever on a lock this CPU already holds
lock(s, l) ==
    LET s1 == disable_interrupts(s)
    IN IF s.guard[l].alive
       THEN [s1 EXCEPT !.spinning = TRUE,
                       !.last = [Before(s, "lock", l) EXCEPT !.ok = FALSE]]
       ELSE [s1 EXCEPT !.guard[l] = [alive |-> TRUE, via |-> "lock",
                                     saved |-> s.enabled],
                       !.last = Before(s, "lock", l)]

\* SpinLockIRQ::try_lock: disable_interrupts, then internal.try_lock();
\* enable_interrupts when it gives no guard
try_lock(s, l) ==
    LET s1 == disable_interrupts(s)
    IN IF s.guard[l].alive
       THEN [enable_interrupts(s1) EXCEPT
                 !.last = [Before(s, "try_lock", l) EXCEPT !.ok = FALSE]]
       ELSE [s1 EXCEPT !.guard[l] = [alive |-> TRUE, via |-> "try_lock",
                                     saved |-> s.enabled],
                       !.last = Before(s, "try_lock", l)]

\* Drop for SpinLockIRQGuard: the mutex is released, then enable_interrupts
drop(s, l) ==
    [enable_interrupts([s EXCEPT !.guard[l].alive = FALSE]) EXCEPT
         !.last = [Before(s, "drop", l) EXCEPT !.via = s.guard[l].via]]

\* lock of one of the further SpinLockIRQs that is free
lock_further(s) ==
    [disable_interrupts(s) EXCEPT !.further = s.further + 1,
                                  !.last = Before(s, "lock", 0)]

\* drop of the guard of one of the further SpinLockIRQs
drop_further(s) ==
    [enable_interrupts(s) EXCEPT !.further = s.further - 1,
                                 !.last = Before(s, "drop", 0)]

----------------------------------------------------------------------------
(* The calls.                                                              *)

\* ret is what a search gives in a build where integer overflow wraps,
\* ret_checked in a build where it panics
NoCall == [name |-> "none", address |-> 0, length |-> 0, frames |-> <<>>,
           flags |-> "ro", panic |-> FALSE, callbacks |-> <<>>,
           rem_length |-> 0, rem_frames |-> <<>>,
           end_addr |-> 0, alignment |-> 0, ret |-> None, ret_checked |-> None,
           reports |-> << >>, events |-> << >>,
           events_checked |-> << >>, flushed |-> << >>]

Init ==
    /\ root = zero
    /\ pre = zero
    /\ call = NoCall
    /\ pre2 = zero
    /\ call2 = NoCall
    /\ ncalls = 0
    /\ irq = IrqInit
    /\ sched = SchedInit
    /\ server = ServerInit
    /\ bitarr = BitArrayInit

\* a panic halts the kernel: no call follows one
CanCall == ncalls < MaxCalls /\ ~call.panic

Record(c, t) ==
    /\ root' = t
    /\ pre' = root
    /\ call' = c
    /\ pre2' = pre
    /\ call2' = call
    /\ ncalls' = ncalls + 1
    /\ UNCHANGED others

Map ==
    /\ CanCall
    /\ \E a \in PageAddresses, fs \in FrameSeqs, fl \in MappingFlags :
         LET r == map_to_from_iterator(root, fs, a, fl)
         IN Record([NoCall EXCEPT !.name = "map", !.address = a,
                                  !.frames = fs, !.flags = fl,
                                  !.panic = r.panic,
                                  !.events = r.events, !.rem_frames = r.frames],
                   r.table)

Guard ==
    /\ CanCall
    /\ \E a \in PageAddresses, l \in Lengths :
         LET r == guard(root, a, l)
         IN Record([NoCall EXCEPT !.name = "guard", !.address = a,
                                  !.length = l, !.panic = r.panic,
                                  !.events = r.events,
                                  !.rem_length = r.length],
                   r.table)

Unmap ==
    /\ CanCall
    /\ \E a \in PageAddresses, l \in Lengths :
         LET r == unmap(root, a, l)
         IN Record([NoCall EXCEPT !.name = "unmap", !.address = a,
                                  !.length = l, !.panic = r.panic,
                                  !.events = r.events,
                                  !.rem_length = r.length,
                                  !.flushed = r.flushed,
                                  !.callbacks = r.callbacks],
                   r.table)

Next == Map \/ Guard \/ Unmap

Spec == Init /\ [][Next]_vars

----------------------------------------------------------------------------
(* Searches: a hierarchy is built by calls that return, then searched.     *)

CanSetup == ncalls < MaxSetupCalls /\ call.name = "none"

Setup(r) ==
    /\ ~r.panic
    /\ root' = r.table
    /\ ncalls' = ncalls + 1
    /\ UNCHANGED <<pre, call, pre2, call2>>
    /\ UNCHANGED others

SetupMap ==
    /\ CanSetup
    /\ \E a \in PageAddresses, fs \in FrameSeqs, fl \in MappingFlags :
         Setup(map_to_from_iterator(root, fs, a, fl))

SetupGuard ==
    /\ CanSetup
    /\ \E a \in PageAddresses, l \in Lengths : Setup(guard(root, a, l))

SetupUnmap ==
    /\ CanSetup
    /\ \E a \in PageAddresses, l \in Lengths : Setup(unmap(root, a, l))

FindLengths == { n * PAGE_SIZE : n \in 1..MaxFindPages }
FindAlignments == { n * PAGE_SIZE : n \in 0..MaxAlignPages }
\* the ends of the window of a search from s for l bytes: a window too
\* small, the windows that fit with some slack, and the whole of memory
FindEnds(s, l) ==
    {s, USIZE_MAX} \cup
    { Min(s + l + k * PAGE_SIZE, USIZE_MAX) : k \in 0..MaxSlackPages }

Find ==
    /\ call.name = "none"
    /\ \E l \in FindLengths, s \in PageAddresses, al \in FindAlignments :
         \E e \in FindEnds(s, l) :
           /\ call' = [NoCall EXCEPT
                  !.name = "find", !.length = l, !.address = s,
                  !.end_addr = e, !.alignment = al,
                  !.ret = find_available_virtual_space_aligned(
                              root, l, s, e, al, FALSE),
                  !.ret_checked = find_available_virtual_space_aligned(
                              root, l, s, e, al, TRUE),
                  !.events = find_events(root, l, s, e, al, FALSE),
                  !.events_checked = find_events(root, l, s, e, al, TRUE)]
           /\ pre' = root
           /\ UNCHANGED <<root, pre2, call2, ncalls>>
           /\ UNCHANGED others

NextFind == SetupMap \/ SetupGuard \/ SetupUnmap \/ Find

SpecFind == Init /\ [][NextFind]_vars

----------------------------------------------------------------------------
(* One call with arbitrary arguments, page aligned or not, on a hierarchy  *)
(* built by calls that return.                                             *)

ArgAddresses == 0 .. MaxArgAddress
ArgLengths == 0 .. MaxArgLength
ArgAlignments == 0 .. MaxArgAlign
IterLengths == { n * PAGE_SIZE : n \in 1..MaxIterPages }

\* the last call is c and left the hierarchy t
Called(c, t) ==
    /\ root' = t
    /\ pre' = root
    /\ call' = c
    /\ UNCHANGED <<pre2, call2, ncalls>>
    /\ UNCHANGED others

MapAt ==
    /\ call.name = "none"
    /\ \E a \in ArgAddresses, fs \in FrameSeqs, fl \in MappingFlags :
         LET r == map_to_from_iterator(root, fs, a, fl)
         IN Called([NoCall EXCEPT !.name = "map", !.address = a,
                                  !.frames = fs, !.flags = fl,
                                  !.panic = r.panic,
                                  !.events = r.events, !.rem_frames = r.frames],
                   r.table)

GuardAt ==
    /\ call.name = "none"
    /\ \E a \in ArgAddresses, l \in ArgLengths :
         LET r == guard(root, a, l)
         IN Called([NoCall EXCEPT !.name = "guard", !.address = a,
                                  !.length = l, !.panic = r.panic,
                                  !.events = r.events,
                                  !.rem_length = r.length],
                   r.table)

UnmapAt ==
    /\ call.name = "none"
    /\ \E a \in ArgAddresses, l \in ArgLengths :
         LET r == unmap(root, a, l)
         IN Called([NoCall EXCEPT !.name = "unmap", !.address = a,
                                  !.length = l, !.panic = r.panic,
                                  !.events = r.events,
                                  !.rem_length = r.length,
                                  !.flushed = r.flushed,
                                  !.callbacks = r.callbacks],
                   r.table)

ForEveryEntry ==
    /\ call.name = "none"
    /\ \E al \in (ArgAddresses \X ArgLengths) \cup (PageAddresses \X IterLengths) :
         LET r == for_every_entry(root, al[1], al[2])
         IN Called([NoCall EXCEPT !.name = "for_every_entry",
                                  !.address = al[1], !.length = al[2],
                                  !.panic = r.panic,
                                  !.events = r.events, !.rem_length = r.length,
                                  !.reports = r.reports],
                   root)

FindAt ==
    /\ call.name = "none"
    /\ \E l \in ArgLengths, s \in ArgAddresses, al \in ArgAlignments :
         \E e \in {0, USIZE_MAX} :
           Called([NoCall EXCEPT
                      !.name = "find", !.length = l, !.address = s,
                      !.end_addr = e, !.alignment = al,
                      !.ret = find_available_virtual_space_aligned(
                                  root, l, s, e, al, FALSE),
                      !.ret_checked = find_available_virtual_space_aligned(
                                  root, l, s, e, al, TRUE),
                      !.events = find_events(root, l, s, e, al, FALSE),
                      !.events_checked = find_events(root, l, s, e, al, TRUE)],
                  root)

Destroy ==
    /\ call.name = "none"
    /\ LET r == destroy(root)
       IN Called([NoCall EXCEPT !.name = "destroy",
                                !.address = RecursiveTablesLand_start_addr,
                                !.length = RecursiveTablesLand_length,
                                !.panic = r.panic,
                                !.events = r.events, !.rem_length = r.length,
                                !.flushed = r.flushed,
                                !.callbacks = r.callbacks],
                 r.table)

NextCall ==
    \/ SetupMap \/ SetupGuard \/ SetupUnmap
    \/ MapAt \/ GuardAt \/ UnmapAt \/ ForEveryEntry \/ FindAt \/ Destroy

SpecCall == Init /\ [][NextCall]_vars

----------------------------------------------------------------------------
(* Locking and dropping SpinLockIRQs.                                      *)

Running == ~irq.spinning

Lock ==
    /\ Running
    /\ \E l \in Locks : irq' = lock(irq, l)
    /\ UNCHANGED <<paging, sched, server, bitarr>>

TryLock ==
    /\ Running
    /\ \E l \in Locks : irq' = try_lock(irq, l)
    /\ UNCHANGED <<paging, sched, server, bitarr>>

DropGuard ==
    /\ Running
    /\ \E l \in Locks : irq.guard[l].alive /\ irq' = drop(irq, l)
    /\ UNCHANGED <<paging, sched, server, bitarr>>

LockFurther ==
    /\ Running
    /\ irq.further < MaxFurtherLocks
    /\ irq' = lock_further(irq)
    /\ UNCHANGED <<paging, sched, server, bitarr>>

DropFurther ==
    /\ Running
    /\ irq.further > 0
    /\ irq' = drop_further(irq)
    /\ UNCHANGED <<paging, sched, server, bitarr>>

InterruptGate ==
    /\ Running
    /\ irq.enabled
    /\ irq' = interrupt_gate(irq)
    /\ UNCHANGED <<paging, sched, server, bitarr>>

NextIRQ ==
    \/ Lock \/ TryLock \/ DropGuard \/ LockFurther \/ DropFurther
    \/ InterruptGate

SpecIRQ == Init /\ [][NextIRQ]_vars

----------------------------------------------------------------------------
(* The scheduler's specification: processes are made and scheduled, give   *)
(* up the CPU, stop, and take or release one another's locks; a call of    *)
(* add_to_schedule_queue can be interrupted where interrupts are enabled.  *)

SchedUp == sched.current # NoProcess /\ ~sched.panicked
\* a process runs: the CPU is not in the hlt of internal_schedule
Awake == ~Idle(sched)

CreateFirstProcess ==
    /\ sched.current = NoProcess /\ ~sched.panicked
    /\ sched' = create_first_process(SchedBefore(sched, "create_first_process"))
    /\ UNCHANGED <<paging, irq, server, bitarr>>

\* add_to_schedule_queue begins, called by the running process or by the
\* handler of an interrupt
AddCheck ==
    /\ SchedUp
    /\ Len(sched.adding) < MaxAdds
    /\ \E p \in Processes :
          sched' = add_check([SchedBefore(sched, "add_check")
                                 EXCEPT !.last.process = p], p)
    /\ UNCHANGED <<paging, irq, server, bitarr>>

\* process.write() waits for the lock of the process
AddLock ==
    /\ SchedUp
    /\ CanStep(sched)
    /\ sched.adding[ActiveAdd(sched)].pc = "checked"
    /\ sched.adding[ActiveAdd(sched)].process \notin Held(sched)
    /\ sched' = add_lock(
           [SchedBefore(sched, "add_lock")
               EXCEPT !.last.process = sched.adding[ActiveAdd(sched)].process])
    /\ UNCHANGED <<paging, irq, server, bitarr>>

AddPush ==
    /\ SchedUp
    /\ CanStep(sched)
    /\ sched.adding[ActiveAdd(sched)].pc = "locked"
    /\ LET p == sched.adding[ActiveAdd(sched)].process
       IN sched' = Counted(sched,
                      add_push([SchedBefore(sched, "add_push")
                                   EXCEPT !.last.process = p,
                                          !.last.pstate_before = sched.pstate[p]]),
                      0)
    /\ UNCHANGED <<paging, irq, server, bitarr>>

Schedule ==
    /\ SchedUp /\ Awake
    /\ sched' = Counted(sched, schedule(SchedBefore(sched, "schedule")), 1)
    /\ UNCHANGED <<paging, irq, server, bitarr>>

Unschedule ==
    /\ SchedUp /\ Awake
    /\ sched.current \notin Held(sched)
    /\ sched' = Counted(sched, unschedule(SchedBefore(sched, "unschedule")), 0)
    /\ UNCHANGED <<paging, irq, server, bitarr>>

\* the hlt instruction, once the handlers of the interrupts that came
\* before it have returned
Hlt ==
    /\ SchedUp /\ sched.hlt_pending
    /\ ~InHandler(sched)
    /\ sched' = hlt(SchedBefore(sched, "hlt"))
    /\ UNCHANGED <<paging, irq, server, bitarr>>

\* an interrupt ends the hlt; when its handler has returned,
\* internal_schedule runs its loop again
Resume ==
    /\ SchedUp /\ sched.halted
    /\ ~InHandler(sched)
    /\ sched' = Counted(sched, continue(SchedBefore(sched, "continue")), 0)
    /\ UNCHANGED <<paging, irq, server, bitarr>>

\* somebody takes the lock of a process
LockProcess ==
    /\ SchedUp
    /\ \E p \in Processes \ Held(sched) :
          sched' = [sched EXCEPT !.locked = sched.locked \cup {p}]
    /\ UNCHANGED <<paging, irq, server, bitarr>>

UnlockProcess ==
    /\ SchedUp
    /\ \E p \in sched.locked :
          sched' = [sched EXCEPT !.locked = sched.locked \ {p}]
    /\ UNCHANGED <<paging, irq, server, bitarr>>

NextSched ==
    \/ CreateFirstProcess \/ AddCheck \/ AddLock \/ AddPush
    \/ Schedule \/ Unschedule \/ Hlt \/ Resume
    \/ LockProcess \/ UnlockProcess

SpecSched == Init /\ [][NextSched]_vars

----------------------------------------------------------------------------
(* The server's specification: waitables are added and the loop turns.     *)

AddWaitable ==
    /\ server.made < MaxWaitables
    /\ \E k \in Kinds : server' = add_waitable(server, k)
    /\ UNCHANGED <<paging, irq, sched, bitarr>>

\* a handler that stays within MaxWaitables
Run ==
    /\ \E idx \in 1 .. Len(server.waitables \o server.to_add_waitables),
          msg \in Messages, dispatch_fails \in BOOLEAN :
          /\ (server.kind[(server.waitables \o server.to_add_waitables)[idx]]
                    = "port" /\ msg # "error") => server.made < MaxWaitables
          /\ server' = run(server, idx, msg, dispatch_fails)
    /\ UNCHANGED <<paging, irq, sched, bitarr>>

NextServer == AddWaitable \/ Run

SpecServer == Init /\ [][NextServer]_vars

----------------------------------------------------------------------------
(* The bit array's specification: arrays are made and ranges are set.      *)

NewArray ==
    /\ \E n \in 0 .. MaxWords :
          bitarr' = [bits |-> new_array(n), before |-> new_array(n),
                     last |-> NoSetBits]
    /\ UNCHANGED <<paging, irq, sched, server>>

\* a panic ends the test: the array is not used again
SetBitsArea ==
    /\ ~bitarr.last.panic
    /\ \E range \in Ranges, value \in BOOLEAN :
          LET r == set_bits_area(bitarr.bits, range, value) IN
          bitarr' = [bits |-> r.bits, before |-> bitarr.bits,
                     last |-> [made |-> TRUE, range |-> range,
                               value |-> value, panic |-> r.panic]]
    /\ UNCHANGED <<paging, irq, sched, server>>

NextBits == NewArray \/ SetBitsArea

SpecBits == Init /\ [][NextBits]_vars

----------------------------------------------------------------------------
(* Vocabulary of the properties.                                           *)

InSpace(a, l) == a + l <= ADDRESS_SPACE

\* every page outside [a, a+l) has in t2 the state it has in t1
OutsideSame(t1, t2, a, l) ==
    \A p \in Pages \ PagesIn(a, l) : PageAt(t1, p) = PageAt(t2, p)

AllAvailable(t, a, l) ==
    \A p \in PagesIn(a, l) : PageAt(t, p).st = "Available"

Returned(c, n) == c.name = n /\ ~c.panic

----------------------------------------------------------------------------
(* C1: map_to_from_iterator(F, A, flags) on an Available range inside the  *)
(* address space, followed by unmap(A, N * PAGE_SIZE, cb), invokes cb      *)
(* exactly N times with F0, .., F(N-1) in that order, returns, and leaves  *)
(* every page of the range Available.                                      *)

C1_Case ==
    /\ Returned(call2, "map")
    /\ RangeAvailable(pre2, call2.address, Len(call2.frames) * PAGE_SIZE)
    /\ call.name = "unmap"
    /\ call.address = call2.address
    /\ call.length = Len(call2.frames) * PAGE_SIZE

C1_MapUnmapRoundTrip ==
    C1_Case =>
        /\ ~call.panic
        /\ call.callbacks = call2.frames
        /\ AllAvailable(root, call.address, call.length)

\* a round trip of two frames given in descending order, over two leaf
\* tables of a hierarchy that already had tables
C1_Witness ==
    /\ C1_Case
    /\ call2.frames = <<2, 1>>
    /\ call.address = PAGE_SIZE * (ENTRY_COUNT - 1)
    /\ pre2 # zero
    /\ call.callbacks = <<2, 1>>

----------------------------------------------------------------------------
(* C2: guard(A, L) on an Available range inside the address space,         *)
(* followed by unmap(A, L, cb) on the same range, returns, leaves every    *)
(* page of the range Available, never invokes cb, and leaves every page    *)
(* outside the range as it was before the guard.                           *)

C2_Case ==
    /\ Returned(call2, "guard")
    /\ RangeAvailable(pre2, call2.address, call2.length)
    /\ call.name = "unmap"
    /\ call.address = call2.address
    /\ call.length = call2.length

C2_GuardConservation ==
    C2_Case =>
        /\ ~call.panic
        /\ call.rem_length = 0
        /\ call.callbacks = <<>>
        /\ AllAvailable(root, call.address, call.length)
        /\ OutsideSame(pre2, root, call.address, call.length)

\* a guard that starts and ends in the middle of parent entries and holds
\* a huge guard, on a hierarchy with a mapped page next to the range
C2_Witness ==
    /\ C2_Case
    /\ call.address = PAGE_SIZE
    /\ call.length = (ENTRY_COUNT + 2) * PAGE_SIZE
    /\ \E p \in Pages : PageAt(pre2, p).st = "Present"
    /\ \E p \in Pages : PageAt(pre, p).st = "Guarded"
    /\ ~call.panic

----------------------------------------------------------------------------
(* C3: guard(B, V) on an Available parent level entry whose span is        *)
(* exactly [B, B+V) leaves that one entry Guarded, without a child table;  *)
(* an unmap(a, l, cb) of a slice B <= a, a+l <= B+V, l < V then returns,   *)
(* leaves every page of [a, a+l) Available and every other page of         *)
(* [B, B+V) Guarded, and does not invoke cb.                               *)

ParentLevels == 1 .. TOP_LEVEL

HugeGuardCall(c, t, lv) ==
    /\ Returned(c, "guard")
    /\ c.length = entry_vm_size(lv)
    /\ c.address % entry_vm_size(lv) = 0
    /\ EntryOf(t, TOP_LEVEL, lv, c.address) = Available

C3_SliceCase(lv) ==
    /\ HugeGuardCall(call2, pre2, lv)
    /\ call.name = "unmap"
    /\ call2.address <= call.address
    /\ call.address + call.length <= call2.address + call2.length
    /\ call.length < call2.length

C3_HugeGuardSplit ==
    \A lv \in ParentLevels :
        /\ HugeGuardCall(call, pre, lv) =>
               EntryOf(root, TOP_LEVEL, lv, call.address) = Guarded
        /\ C3_SliceCase(lv) =>
               /\ ~call.panic
               /\ call.callbacks = <<>>
               /\ AllAvailable(root, call.address, call.length)
               /\ \A p \in PagesIn(call2.address, call2.length)
                            \ PagesIn(call.address, call.length) :
                        PageAt(root, p).st = "Guarded"

----------------------------------------------------------------------------
(* C4: when unmap(A, L, cb) returns, every page outside [A, A+L) has the   *)
(* state it had before the call; a huge guard that only partially overlaps *)
(* the range keeps its part outside the range Guarded.                     *)

C4_UnmapTouchesOnlyRange ==
    Returned(call, "unmap") =>
        OutsideSame(pre, root, call.address, call.length)

----------------------------------------------------------------------------
(* The free-space search.  A search has two results, one per build (integer *)
(* overflow wrapping or trapping); a property of the search is a property  *)
(* of both.                                                                *)

FindResults == {call.ret, call.ret_checked}

FoundSome(r) == call.name = "find" /\ r.outcome = "return" /\ r.some
FoundNone(r) == call.name = "find" /\ r.outcome = "return" /\ ~r.some

\* x is a hole the search was asked for
IsHole(x) ==
    /\ call.address <= x
    /\ x + call.length <= call.end_addr
    /\ x % call.alignment = 0
    /\ AllAvailable(root, x, call.length)

----------------------------------------------------------------------------
(* C5: when find_available_virtual_space_aligned(length, start_addr,       *)
(* end_addr, alignment) returns Some(x), every page of [x, x+length) is    *)
(* Available.                                                              *)

C5_FindSound ==
    \A r \in FindResults :
        FoundSome(r) => RangeAvailable(root, r.addr, call.length)

----------------------------------------------------------------------------
(* C6: find_available_virtual_space_aligned(L, S, E, A) returns None only  *)
(* if no A-aligned x with S <= x and x + L <= E has [x, x+L) entirely      *)
(* Available.                                                              *)

C6_FindComplete ==
    \A r \in FindResults :
        (FoundNone(r) /\ call.alignment # 0) =>
            ~ \E x \in PageAddresses : IsHole(x)

----------------------------------------------------------------------------
(* C7: for every alignment that is a non-zero multiple of PAGE_SIZE, when  *)
(* find_available_virtual_space_aligned returns Some(x), x is a multiple   *)
(* of alignment.                                                           *)

C7_FindAligned ==
    \A r \in FindResults :
        (FoundSome(r) /\ call.alignment # 0) => r.addr % call.alignment = 0

----------------------------------------------------------------------------
(* Parent level entries, named by their level and the address they start   *)
(* at.                                                                     *)

EntryBases(lv) == { b \in PageAddresses : b % entry_vm_size(lv) = 0 }

SpanInside(lv, b, a, l) == a <= b /\ b + entry_vm_size(lv) <= a + l

\* the entry exists, its whole span lies inside [a, a+l) and holds only
\* Available pages
WhollyFree(t, lv, b, a, l) ==
    /\ EntryOf(t, TOP_LEVEL, lv, b) # Missing
    /\ SpanInside(lv, b, a, l)
    /\ AllAvailable(t, b, entry_vm_size(lv))

----------------------------------------------------------------------------
(* C8 as claimed: for every guard(A, L) that returns and every parent      *)
(* level entry whose whole span lies inside [A, A+L) and contains only     *)
(* Available pages, at the highest such level, that single entry is        *)
(* Guarded after the call and has no child table.                          *)

C8_HugeGuardWhollyFree ==
    Returned(call, "guard") =>
        \A lv \in ParentLevels : \A b \in EntryBases(lv) :
            ( /\ WhollyFree(pre, lv, b, call.address, call.length)
              /\ \A up \in ParentLevels :
                    up > lv =>
                      ~WhollyFree(pre, up, b - (b % entry_vm_size(up)),
                                  call.address, call.length) )
            => EntryOf(root, TOP_LEVEL, lv, b) = Guarded

(* C8 as amended: for every guard(A, L) that returns and every parent      *)
(* level entry that is itself Available (it has no child table) and whose  *)
(* whole span lies inside [A, A+L), that single entry is Guarded after the *)
(* call and has no child table.                                            *)

C8_HugeGuardAvailableEntry ==
    Returned(call, "guard") =>
        \A lv \in ParentLevels : \A b \in EntryBases(lv) :
            ( /\ EntryOf(pre, TOP_LEVEL, lv, b) = Available
              /\ SpanInside(lv, b, call.address, call.length) )
            => EntryOf(root, TOP_LEVEL, lv, b) = Guarded

\* a guard that starts in the middle of a top level entry and covers a
\* whole Available entry of the level below, in an existing table
C8_Witness ==
    /\ Returned(call, "guard")
    /\ call.address % entry_vm_size(1) # 0
    /\ \E b \in EntryBases(1) :
          /\ EntryOf(pre, TOP_LEVEL, 1, b) = Available
          /\ SpanInside(1, b, call.address, call.length)
          /\ EntryOf(root, TOP_LEVEL, 1, b) = Guarded

----------------------------------------------------------------------------
(* C9: map_to_from_iterator of N frames at A, with [A, A+N*PAGE_SIZE)      *)
(* inside the address space and entirely Available, returns with the page  *)
(* at A + k*PAGE_SIZE Present with the k-th frame and the supplied flags   *)
(* for every k < N, all N frames taken, and no other page changed.         *)

C9_Case ==
    /\ call.name = "map"
    /\ RangeAvailable(pre, call.address, Len(call.frames) * PAGE_SIZE)

C9_MapPostcondition ==
    C9_Case =>
        /\ ~call.panic
        /\ call.rem_frames = <<>>
        /\ \A k \in 1..Len(call.frames) :
              PageAt(root, call.address \div PAGE_SIZE + (k - 1))
                  = PresentFrame(call.frames[k], call.flags)
        /\ OutsideSame(pre, root, call.address, Len(call.frames) * PAGE_SIZE)

\* two frames mapped writable over two leaf tables, next to pages that are
\* already Present or Guarded
C9_Witness ==
    /\ C9_Case
    /\ call.frames = <<2, 1>>
    /\ call.flags = "rw"
    /\ call.address = PAGE_SIZE * (ENTRY_COUNT - 1)
    /\ \E p \in Pages : PageAt(pre, p).st = "Guarded"
    /\ PageAt(root, ENTRY_COUNT).st = "Present"

----------------------------------------------------------------------------
(* C10: map_to_from_iterator never changes a page that was Present or      *)
(* Guarded before the call, and panics when it reaches such a page with    *)
(* frames still remaining.                                                 *)

\* the pages the call would map, in order
MapTargets == [k \in 1..Len(call.frames) |->
                  call.address \div PAGE_SIZE + (k - 1)]

\* the k-th target is the first one that is in use
FirstUsed(k) ==
    /\ MapTargets[k] \in Pages
    /\ PageAt(pre, MapTargets[k]).st # "Available"
    /\ \A j \in 1..(k - 1) : PageAt(pre, MapTargets[j]).st = "Available"

C10_MapNeverOverwrites ==
    call.name = "map" =>
        /\ \A p \in Pages :
              PageAt(pre, p).st \in {"Present", "Guarded"} =>
                  PageAt(root, p) = PageAt(pre, p)
        /\ \A k \in 1..Len(call.frames) :
              FirstUsed(k) =>
                  /\ call.panic
                  /\ call.rem_frames
                       = SubSeq(call.frames, k, Len(call.frames))

\* a call that maps its first frame and aborts on the second target, a
\* page covered by a huge guard
C10_Witness ==
    /\ call.name = "map"
    /\ call.panic
    /\ Len(call.frames) = 2
    /\ FirstUsed(2)
    /\ EntryOf(pre, TOP_LEVEL, 1, MapTargets[2] * PAGE_SIZE) = Guarded
    /\ PageAt(root, MapTargets[1]).st = "Present"

----------------------------------------------------------------------------
(* C11: guard(A, L) on a range inside the address space and entirely       *)
(* Available returns, leaves every page of [A, A+L) Guarded (by a leaf     *)
(* guard or a huge guard) and every page outside [A, A+L) as it was, also  *)
(* when A or A+L falls in the middle of a parent level entry's span.       *)

C11_Case ==
    /\ call.name = "guard"
    /\ RangeAvailable(pre, call.address, call.length)

C11_GuardPostcondition ==
    C11_Case =>
        /\ ~call.panic
        /\ call.rem_length = 0
        /\ \A p \in PagesIn(call.address, call.length) :
              PageAt(root, p) = Guarded
        /\ OutsideSame(pre, root, call.address, call.length)

\* a guard that starts and ends in the middle of top level entries, next
\* to a mapped page, and puts a huge guard in between
C11_Witness ==
    /\ C11_Case
    /\ call.address % entry_vm_size(1) # 0
    /\ (call.address + call.length) % entry_vm_size(1) # 0
    /\ \E b \in EntryBases(1) : EntryOf(root, TOP_LEVEL, 1, b) = Guarded
    /\ \E p \in Pages : PageAt(pre, p).st = "Present"
    /\ \A p \in PagesIn(call.address, call.length) : PageAt(root, p) = Guarded

----------------------------------------------------------------------------
(* C12: whenever [A, A+L) contains a page that is already Guarded (by a    *)
(* leaf guard or a huge guard) or Present, guard(A, L) panics.             *)

UsedIn(t, a, l) == { p \in PagesIn(a, l) : PageAt(t, p).st # "Available" }

C12_GuardUsedIsFatal ==
    (call.name = "guard" /\ UsedIn(pre, call.address, call.length) # {})
        => call.panic

\* a guard whose first pages are Available and whose last page lies under
\* a huge guard: the call panics after it has guarded the first pages
C12_Witness ==
    /\ call.name = "guard"
    /\ call.panic
    /\ PageAt(pre, call.address \div PAGE_SIZE).st = "Available"
    /\ PageAt(root, call.address \div PAGE_SIZE).st = "Guarded"
    /\ \E p \in UsedIn(pre, call.address, call.length) :
          EntryOf(pre, TOP_LEVEL, 1, p * PAGE_SIZE) = Guarded

----------------------------------------------------------------------------
(* C13: for [A, A+L) inside the address space, whenever unmap(A, L, cb)    *)
(* returns, every page of [A, A+L) is Available, whatever mapped pages,    *)
(* leaf guards and huge guards the range held and wherever A falls inside  *)
(* a parent level entry's span.                                            *)

C13_UnmapPostcondition ==
    (Returned(call, "unmap") /\ InSpace(call.address, call.length))
        => AllAvailable(root, call.address, call.length)

----------------------------------------------------------------------------
(* C14: whenever [A, A+L) contains a page that is Available (an Available  *)
(* leaf entry or a page under an Available parent level entry),            *)
(* unmap(A, L, cb) panics.                                                 *)

C14_UnmapAvailableIsFatal ==
    ( /\ call.name = "unmap"
      /\ \E p \in PagesIn(call.address, call.length) :
            PageAt(pre, p).st = "Available" )
        => call.panic

----------------------------------------------------------------------------
(* The tables of a hierarchy, named by the entry indices that lead to them *)
(* from the top level table.                                               *)

RECURSIVE TablePaths(_, _)
TablePaths(table, level) ==
    {<< >>} \cup
    UNION { { <<i>> \o q : q \in TablePaths(table[i].child, level - 1) } :
            i \in { j \in Indices : level > 0 /\ table[j].st = "Present" } }

\* the table a path leads to
RECURSIVE TableOn(_, _)
TableOn(table, path) ==
    IF path = << >> THEN table
    ELSE TableOn(table[Head(path)].child, Tail(path))

EmptyTable(table) == \A i \in Indices : table[i].st = "Available"

----------------------------------------------------------------------------
(* C18: no call frees a table: every table reachable from the root before  *)
(* a call is reachable after it, so unmap never turns a Present parent     *)
(* level entry into Available and a child table whose entries have all     *)
(* become Available stays attached to its Present parent entry.            *)

C18_NoTableReclamation ==
    call.name # "none" =>
        TablePaths(pre, TOP_LEVEL) \subseteq TablePaths(root, TOP_LEVEL)

\* an unmap that hands back frames and leaves a leaf table with nothing
\* but Available entries attached
C18_Witness ==
    /\ Returned(call, "unmap")
    /\ call.callbacks # << >>
    /\ \E q \in TablePaths(root, TOP_LEVEL) :
          /\ Len(q) = TOP_LEVEL
          /\ EmptyTable(TableOn(root, q))
          /\ ~EmptyTable(TableOn(pre, q))

----------------------------------------------------------------------------
(* C20: after any sequence of map_to_from_iterator, guard and unmap calls, *)
(* calls that abort part-way included, every Present entry of a level > 0  *)
(* points to a child table of the next lower level, every Present entry of *)
(* level 0 holds a frame, and the tables form a tree under the root.       *)

RECURSIVE WellFormed(_, _)
WellFormed(table, level) ==
    /\ DOMAIN table = Indices
    /\ \A i \in Indices :
          \/ table[i] \in {Available, Guarded}
          \/ /\ level = 0
             /\ table[i].st = "Present"
             /\ DOMAIN table[i] = {"st", "frame", "flags"}
          \/ /\ level > 0
             /\ table[i].st = "Present"
             /\ DOMAIN table[i] = {"st", "child"}
             /\ WellFormed(table[i].child, level - 1)

----------------------------------------------------------------------------
(* C15: guard, unmap and for_every_entry panic when address or length is   *)
(* not a multiple of PAGE_SIZE, map_to_from_iterator when start_address is *)
(* not, find_available_virtual_space_aligned when start_addr, length or    *)
(* alignment is not, when start_addr > end_addr or when length is 0; the   *)
(* panic comes before any entry is modified, any table created, any frame  *)
(* taken from the iterator or any callback invoked.                        *)

Unaligned(x) == x % PAGE_SIZE # 0

BadArguments ==
    \/ /\ call.name \in {"guard", "unmap", "for_every_entry"}
       /\ Unaligned(call.address) \/ Unaligned(call.length)
    \/ /\ call.name = "map"
       /\ Unaligned(call.address)
    \/ /\ call.name = "find"
       /\ \/ Unaligned(call.address) \/ Unaligned(call.length)
          \/ Unaligned(call.alignment)
          \/ call.address > call.end_addr
          \/ call.length = 0

NoEffect ==
    /\ root = pre
    /\ call.rem_frames = call.frames
    /\ call.callbacks = << >>
    /\ call.reports = << >>

C15_BadArgumentsRejected ==
    BadArguments =>
        /\ NoEffect
        /\ IF call.name = "find"
           THEN \A r \in FindResults : r.outcome = "panic"
           ELSE call.panic

\* a guard of a page aligned address for a length of a page and a half,
\* on a hierarchy where the walk would have guarded the first page
C15_Witness ==
    /\ call.name = "guard"
    /\ call.address = PAGE_SIZE
    /\ call.length = PAGE_SIZE + 1
    /\ PageAt(pre, 1).st = "Available"
    /\ pre # zero
    /\ call.panic
    /\ root = pre

----------------------------------------------------------------------------
(* C16: for a page aligned range lying inside one leaf table that is       *)
(* reached through Present parent entries, for_every_entry invokes the     *)
(* callback exactly once per page of the range, in ascending address       *)
(* order, with the page's state (Present with its physical address,        *)
(* Guarded or Available) and the span PAGE_SIZE.                           *)

C16_Case ==
    /\ call.name = "for_every_entry"
    /\ ~Unaligned(call.address) /\ ~Unaligned(call.length)
    /\ call.length > 0
    /\ call.address \div table_vm_size(0)
         = (call.address + call.length - 1) \div table_vm_size(0)
    /\ InSpace(call.address, call.length)
    /\ EntryOf(root, TOP_LEVEL, 0, call.address) # Missing

\* what the callback is to be told of a page
Reported(e) ==
    IF e.st = "Present" THEN [st |-> "Present", frame |-> e.frame]
    ELSE [st |-> e.st]

C16_LeafReports ==
    C16_Case =>
        /\ ~call.panic
        /\ call.reports =
              [k \in 1..(call.length \div PAGE_SIZE) |->
                  [state |-> Reported(PageAt(root, call.address \div PAGE_SIZE
                                                       + (k - 1))),
                   size |-> PAGE_SIZE]]

\* a whole leaf table with a mapped page followed by a guarded page
C16_Witness ==
    /\ C16_Case
    /\ call.length = table_vm_size(0)
    /\ call.reports =
          << [state |-> [st |-> "Present", frame |-> 1], size |-> PAGE_SIZE],
             [state |-> [st |-> "Guarded"], size |-> PAGE_SIZE] >>

----------------------------------------------------------------------------
(* C17: for_every_entry(0, L, cb) on a hierarchy whose top level table is  *)
(* entirely Available reports only Available, each report with the top     *)
(* level entry_vm_size as span, one report per top level entry overlapped  *)
(* by [0, L) in ascending order, and creates no child table.               *)

C17_Case ==
    /\ call.name = "for_every_entry"
    /\ pre = zero
    /\ call.address = 0
    /\ ~Unaligned(call.length)

\* top level entries overlapped by [0, l)
Overlapped(l) ==
    { i \in Indices : i * entry_vm_size(TOP_LEVEL) < l }

C17_EmptyHierarchyReports ==
    C17_Case =>
        /\ ~call.panic
        /\ call.reports =
              [k \in 1..Cardinality(Overlapped(call.length)) |->
                  [state |-> [st |-> "Available"],
                   size |-> entry_vm_size(TOP_LEVEL)]]
        /\ root = zero

\* a range that ends inside the second top level entry
C17_Witness ==
    /\ C17_Case
    /\ call.length = entry_vm_size(TOP_LEVEL) + PAGE_SIZE
    /\ Len(call.reports) = 2

----------------------------------------------------------------------------
(* C19: for any state of the hierarchy destroy() completes, hands every    *)
(* frame that is Present in RecursiveTablesLand to                         *)
(* PhysicalMemRegion::reconstruct exactly once, and modifies no entry that *)
(* maps an address outside RecursiveTablesLand.                            *)

\* the frames Present in [a, a+l) of t
FramesIn(t, a, l) ==
    { PageAt(t, p).frame : p \in { q \in PagesIn(a, l) : PageAt(t, q).st = "Present" } }

C19_DestroyReleases ==
    call.name = "destroy" =>
        /\ ~call.panic
        /\ Len(call.callbacks) = Cardinality({ p \in PagesIn(call.address, call.length) : PageAt(pre, p).st = "Present" })
        /\ { call.callbacks[k] : k \in 1..Len(call.callbacks) }
              = FramesIn(pre, call.address, call.length)
        /\ OutsideSame(pre, root, call.address, call.length)

----------------------------------------------------------------------------
(* C21: every page is at any time in exactly one of Available, Guarded,    *)
(* Present; a page becomes Present only through map_to_from_iterator,      *)
(* becomes Guarded only through guard (the fill of a split huge guard      *)
(* leaves Guarded the pages its span already covered), and guard, unmap,   *)
(* for_every_entry and find_available_virtual_space_aligned never make a   *)
(* page Present nor change the physical address of a Present page.         *)

PageStates == {"Available", "Guarded", "Present"}

----------------------------------------------------------------------------
(* C22: each entry mutation made during map_to_from_iterator, guard or     *)
(* unmap by zero, guard_all_entries, map_nth_entry, guard_nth_entry or     *)
(* unmap_nth_entry is followed by a flush_whole_cache before the handle to *)
(* that table is released, before any other table is accessed and before   *)
(* the operation returns.                                                  *)

\* the k-th event is an entry mutation that something other than a
\* mutation of the same table or a flush follows
Unflushed(log, k) ==
    /\ log[k].ev = "set"
    /\ \/ k = Len(log)
       \/ log[k + 1].ev \notin {"set", "flush"}
       \/ log[k + 1].ev = "set" /\ log[k + 1].level # log[k].level

C22_FlushAfterMutation ==
    call.name \in {"map", "guard", "unmap"} =>
        \A k \in 1..Len(call.events) : ~Unflushed(call.events, k)

\* an unmap that split a huge guard: the entry cleared, the child zeroed
\* and then filled with guards, each batch flushed, before the walk went
\* into the child
C22_Witness ==
    /\ Returned(call, "unmap")
    /\ \E k \in 1..Len(call.events) :
          /\ call.events[k] = Link(1)
          /\ SubSeq(call.events, k + 1, k + ENTRY_COUNT + 1)
                = guard_all_entries_events(0)
    /\ call.events[Len(call.events)] = Close(TOP_LEVEL)

----------------------------------------------------------------------------
(* C23: for every Present leaf page that unmap removes, callback(paddr) is *)
(* invoked only after the page's entry has been set Available and the      *)
(* flush of that mutation issued, with the physical address the entry      *)
(* held; the callback is never invoked for a Guarded entry.                *)

CallbackEvents(log) == SelectSeq(log, LAMBDA e : e.ev = "callback")

\* the pages that were Present and are not any more, in ascending order
RECURSIVE RemovedFrom(_)
RemovedFrom(p) ==
    IF p >= NbPages THEN << >>
    ELSE (IF PageAt(pre, p).st = "Present" /\ PageAt(root, p).st # "Present"
          THEN <<PageAt(pre, p).frame>> ELSE << >>) \o RemovedFrom(p + 1)

C23_ReleaseAfterClear ==
    call.name = "unmap" =>
        /\ \A k \in 1..Len(call.events) :
              call.events[k].ev = "callback" =>
                  /\ k > 2
                  /\ call.events[k - 1] = Flush
                  /\ call.events[k - 2] = Set(0)
        /\ [k \in 1..Len(CallbackEvents(call.events)) |->
                CallbackEvents(call.events)[k].frame] = RemovedFrom(0)
        /\ call.callbacks = RemovedFrom(0)

\* an unmap over a leaf guard and then a mapped page: one callback, for
\* the mapped page only
C23_Witness ==
    /\ Returned(call, "unmap")
    /\ call.length = 2 * PAGE_SIZE
    /\ InSpace(call.address, call.length)
    /\ PageAt(pre, call.address \div PAGE_SIZE) = Guarded
    /\ PageAt(pre, call.address \div PAGE_SIZE + 1).st = "Present"
    /\ Len(call.callbacks) = 1
    /\ Len(CallbackEvents(call.events)) = 1

----------------------------------------------------------------------------
(* C24: for any sequence of lock, try_lock and guard drops on any number   *)
(* of SpinLockIRQs, in any drop order, interrupts are disabled whenever at *)
(* least one SpinLockIRQGuard is alive and are re-enabled exactly when the *)
(* last live guard is dropped; a failed try_lock leaves the disable        *)
(* counter and the interrupt state as they were before the call.           *)

LiveGuards ==
    Cardinality({ l \in Locks : irq.guard[l].alive }) + irq.further

C24_InterruptsOffWhileGuarded ==
    /\ LiveGuards > 0 => ~irq.enabled
    /\ (irq.last.op = "drop" /\ LiveGuards = 0) => irq.enabled
    /\ (irq.last.op = "try_lock" /\ ~irq.last.ok) =>
          /\ irq.counter = irq.last.counter_before
          /\ irq.enabled = irq.last.enabled_before

----------------------------------------------------------------------------
(* C25: after the guard returned by a lock() call is dropped, the          *)
(* interrupt-enable state equals the state that held immediately before    *)
(* that lock() call, whether interrupts were enabled or disabled then.     *)

\* the guard dropped last came from lock(), and interrupts were in state e
\* right before that lock()
DroppedLockGuard(e) ==
    /\ irq.last.op = "drop"
    /\ irq.last.lock \in Locks
    /\ irq.last.via = "lock"
    /\ irq.guard[irq.last.lock].saved = e

C25_IrqSaveRestore ==
    \A e \in BOOLEAN : DroppedLockGuard(e) => irq.enabled = e

----------------------------------------------------------------------------
\* C26: the running process is the first element of SCHEDULE_QUEUE, and
\* schedule() rotates it to the end of the queue, the next element
\* becoming the running process.
Rotated(queue) == IF queue = << >> THEN queue
                  ELSE Tail(queue) \o <<Head(queue)>>

C26_QueueLayout ==
    /\ (sched.current # NoProcess /\ ~sched.halted /\ ~sched.hlt_pending
            /\ ~sched.panicked) =>
          /\ sched.queue # << >>
          /\ Head(sched.queue) = sched.current
    /\ (sched.last.op = "schedule" /\ Len(sched.last.queue_before) > 1) =>
          /\ sched.queue = Rotated(sched.last.queue_before)
          /\ sched.current = sched.last.queue_before[2]

----------------------------------------------------------------------------
\* C27: in WaitableManager::run the waitable whose handle_signaled returns
\* false is removed from the waited-on objects, so is the one whose
\* handle_signaled returns an error, and the waitable is kept otherwise.
WaitedOn(w) == InQueue(server.waitables, w)

C27_RemovalRule ==
    server.last.result # "none" =>
        IF server.last.result \in {"Ok(false)", "Err"}
        THEN ~WaitedOn(server.last.waitable)
        ELSE WaitedOn(server.last.waitable)

----------------------------------------------------------------------------
\* C28: set_bits_area(range, value) on a range whose indices are all below
\* bit_length sets the bits of the range to value and leaves the other
\* bits as they were (an exclusive end of 0 changes nothing); a range
\* with an index at or above bit_length panics.
InRange(range, i, n) ==
    /\ range.start.kind = "Included" => range.start.b <= i
    /\ CASE range.end.kind = "Unbounded" -> i < n
         [] range.end.kind = "Included" -> i <= range.end.b
         [] OTHER -> i < range.end.b

AllBelow(range, n) ==
    \A i \in 0 .. MaxBound : InRange(range, i, n) => i < n

C28_SetsExactlyTheRange ==
    bitarr.last.made =>
        LET n == Len(bitarr.before)
            range == bitarr.last.range
        IN  IF AllBelow(range, n)
            THEN /\ ~bitarr.last.panic
                 /\ Len(bitarr.bits) = n
                 /\ \A i \in 0 .. n - 1 :
                       bitarr.bits[i + 1] =
                           IF InRange(range, i, n) THEN bitarr.last.value
                           ELSE bitarr.before[i + 1]
            ELSE bitarr.last.panic

----------------------------------------------------------------------------
\* C29: for_every_entry(A, L), A and L page-aligned and [A, A+L) inside
\* the address space, reports every entry overlapping [A, A+L) once, in
\* ascending address order, also when A lies inside an Available or
\* Guarded entry of a parent level.
RECURSIVE Spans(_, _, _, _)
\* the entries that are not child tables, from entry i of the table on, in
\* ascending order, each with the address its span starts at
Spans(table, level, base, i) ==
    IF i >= ENTRY_COUNT THEN << >>
    ELSE LET e == table[i]
             start == base + i * entry_vm_size(level)
         IN  (IF level > 0 /\ e.st = "Present"
              THEN Spans(e.child, level - 1, start, 0)
              ELSE <<[start |-> start, size |-> entry_vm_size(level),
                      entry |-> e]>>)
             \o Spans(table, level, base, i + 1)

OverlapsCall(span) ==
    /\ call.length > 0
    /\ span.start < call.address + call.length
    /\ call.address < span.start + span.size

Overlapping == SelectSeq(Spans(pre, TOP_LEVEL, 0, 0), OverlapsCall)

C29_Case ==
    /\ call.name = "for_every_entry"
    /\ ~Unaligned(call.address) /\ ~Unaligned(call.length)
    /\ InSpace(call.address, call.length)

C29_CoversTheRange ==
    C29_Case =>
        /\ ~call.panic
        /\ call.reports =
              [k \in 1 .. Len(Overlapping) |->
                  [state |-> Reported(Overlapping[k].entry),
                   size |-> Overlapping[k].size]]

----------------------------------------------------------------------------
\* C30: for_every_entry and find_available_virtual_space_aligned are
\* read-only: they leave every entry of every table as it was, make no
\* child table and write no entry, for every input and tree state.
Query(c) == c.name \in {"for_every_entry", "find"}

\* what a walk does when it writes an entry or links a child table
Mutations == {"set", "link", "flush"}

ReadOnly(log) == \A k \in 1 .. Len(log) : log[k].ev \notin Mutations

Descends(log) ==
    \E k \in 1 .. Len(log) : log[k].ev = "open" /\ log[k].level < TOP_LEVEL

----------------------------------------------------------------------------
\* C31: when find_available_virtual_space_aligned(length, start_addr,
\* end_addr, alignment) returns Some(x), start_addr <= x and
\* x + length <= end_addr, without overflow; when length is larger than
\* end_addr - start_addr, or no aligned address exists at or after
\* start_addr, it returns None.
NoAlignedAddress ==
    /\ call.alignment # 0
    /\ \A x \in call.address .. USIZE_MAX : x % call.alignment # 0

WindowTooSmall == call.length > call.end_addr - call.address

C31_InsideWindow ==
    call.name = "find" =>
        \A r \in FindResults :
            /\ FoundSome(r) =>
                  /\ call.address <= r.addr
                  /\ r.addr + call.length <= call.end_addr
                  /\ r.addr + call.length <= USIZE_MAX
            /\ (WindowTooSmall \/ NoAlignedAddress) => r = None

\* a search that returns an address above its start, the window ending
\* right after the hole
C31_Witness ==
    /\ FoundSome(call.ret)
    /\ call.address < call.ret.addr
    /\ call.ret.addr + call.length = call.end_addr
    /\ call.end_addr < USIZE_MAX

----------------------------------------------------------------------------
\* C32: on a hierarchy where no top level entry overlapping [A, A+L) has
\* a child table, guard(A, L) creates at most 2 child tables per level
\* below the top level, whatever L; every entry of a parent level wholly
\* inside the range becomes a single Guarded entry.
OverlapsTop(i, a, l) ==
    /\ i * entry_vm_size(TOP_LEVEL) < a + l
    /\ a < (i + 1) * entry_vm_size(TOP_LEVEL)

C32_Case ==
    /\ call.name = "guard"
    /\ ~Unaligned(call.address) /\ ~Unaligned(call.length)
    /\ \A i \in Indices :
          OverlapsTop(i, call.address, call.length) => pre[i].st # "Present"

\* the tables of level lv the call created
CreatedTables(lv) ==
    { q \in TablePaths(root, TOP_LEVEL) \ TablePaths(pre, TOP_LEVEL) :
        Len(q) = TOP_LEVEL - lv }

C32_GuardCostsFewTables ==
    C32_Case =>
        /\ \A lv \in 0 .. TOP_LEVEL - 1 : Cardinality(CreatedTables(lv)) <= 2
        /\ ~call.panic =>
              \A lv \in 1 .. TOP_LEVEL : \A b \in EntryBases(lv) :
                  SpanInside(lv, b, call.address, call.length) =>
                      EntryOf(root, TOP_LEVEL, lv, b) \in {Guarded, Missing}

\* a guard that starts and ends inside leaf tables and covers a whole
\* parent level entry in between
C32_Witness ==
    /\ C32_Case
    /\ ~call.panic
    /\ Cardinality(CreatedTables(0)) = 2
    /\ Cardinality(CreatedTables(1)) = 2
    /\ \E b \in EntryBases(1) :
          /\ SpanInside(1, b, call.address, call.length)
          /\ EntryOf(root, TOP_LEVEL, 1, b) = Guarded

----------------------------------------------------------------------------
\* C33: find_available_virtual_space_aligned always terminates: for every
\* tree state and every input its assertions accept, the search makes
\* progress on each turn of its loop and returns Some or None.
Accepted ==
    /\ call.name = "find"
    /\ ~Unaligned(call.address) /\ ~Unaligned(call.length)
    /\ ~Unaligned(call.alignment)
    /\ call.address <= call.end_addr
    /\ call.length > 0

C33_FindTerminates ==
    Accepted => \A r \in FindResults : r.outcome = "return"

----------------------------------------------------------------------------
\* C36: in every evaluation of the loop condition of rec_find, for every
\* tree state and accepted input, hole.start_addr + hole.len is at least
\* the base address of the table being scanned: the subtraction never
\* underflows.
Underflows(log) == \E k \in 1 .. Len(log) : log[k].ev = "underflow"

C36_NoNegativeOffset ==
    Accepted => ~Underflows(call.events) /\ ~Underflows(call.events_checked)

----------------------------------------------------------------------------
\* C34: a queued process whose lock is free whenever the scheduler looks at
\* it runs after at most index + 1 calls of schedule(), and a schedule()
\* that finds a candidate takes the first process whose lock is free, puts
\* the process that ran at the back and keeps the order of the others.
FreeIn(queue) ==
    { i \in 1 .. Len(queue) : queue[i] \notin sched.last.held_before }
FirstFree(queue) == CHOOSE i \in FreeIn(queue) : \A j \in FreeIn(queue) : i <= j
Without(queue, p) == SelectSeq(queue, LAMBDA x : x # p)

----------------------------------------------------------------------------
\* C35: a process is at most once in SCHEDULE_QUEUE however the calls of
\* add_to_schedule_queue, schedule and unschedule interleave;
\* add_to_schedule_queue panics when the process is queued already or is
\* not Stopped, and otherwise leaves it last in the queue and Scheduled.
NoDuplicates(queue) ==
    \A i, j \in 1 .. Len(queue) : queue[i] = queue[j] => i = j

C35_NoDuplicates ==
    /\ NoDuplicates(sched.queue)
    /\ sched.last.op = "add_check" =>
          (sched.last.panic <=>
              \/ InQueue(sched.last.queue_before, sched.last.process)
              \/ /\ sched.last.current_before = sched.last.process
                 /\ sched.pstate[sched.last.process] = "Running")
    /\ sched.last.op = "add_push" =>
          /\ sched.last.panic <=> sched.last.pstate_before # "Stopped"
          /\ ~sched.last.panic =>
                /\ sched.queue # << >>
                /\ sched.queue[Len(sched.queue)] = sched.last.process
                /\ sched.pstate[sched.last.process] = "Scheduled"

\* the second call for the same process, begun before the first one's
\* push, panics instead of pushing
C35_Witness ==
    /\ sched.last.op = "add_push" /\ sched.last.panic
    /\ InQueue(sched.queue, sched.last.process)
    /\ sched.pstate[sched.last.process] = "Scheduled"

----------------------------------------------------------------------------
\* C39: internal_schedule halts the CPU only while no process of
\* SCHEDULE_QUEUE can run: a process that the handler of an interrupt adds
\* after the locks were dropped is run without waiting for a later
\* interrupt.
Runnable(queue, held) == \E i \in 1 .. Len(queue) : queue[i] \notin held

C39_NoLostWakeup ==
    sched.last.op = "hlt" =>
        ~Runnable(sched.last.queue_before, sched.last.held_before)

----------------------------------------------------------------------------
\* C37: when unmap splits a huge guard that its range overlaps in part,
\* the huge guard is cleared first: at the flushes of unmap_nth_entry and
\* of the zeroing of the new child every page of the span of the guard is
\* Available, and from the flush of guard_all_entries on, until the walk
\* of the child writes, every page of the span is Guarded again.
SpanPages(f) == PagesIn(f.base, entry_vm_size(f.level))
OutsideCall(f) == SpanPages(f) \ PagesIn(call.address, call.length)
Splits == { k \in 1 .. Len(call.flushed) : call.flushed[k].at = "split" }

----------------------------------------------------------------------------
\* C38: when guard or unmap returns, the remaining length is 0, and when
\* map_to_from_iterator returns, no frame is left in the iterator, for any
\* page aligned range, one that reaches or passes the last entry of the top
\* level table included.
C38_NothingLeft ==
    /\ (Returned(call, "guard") \/ Returned(call, "unmap")) =>
           call.rem_length = 0
    /\ Returned(call, "map") => call.rem_frames = << >>

====
